---- MODULE Spec2Model ----
(***************************************************************************)
(* Health-AI: the symptom selector (search, match scoring, category        *)
(* filter, selection) of components/SymptomSelector and the part of App    *)
(* that hosts it.                                                          *)
(*                                                                         *)
(* A JavaScript string is modelled as a sequence of one-character strings, *)
(* so that "Fever" is <<"F","e","v","e","r">>.                             *)
(***************************************************************************)
EXTENDS Integers, Sequences, FiniteSets, TLC

(***************************************************************************)
(* Static data                                                             *)
(***************************************************************************)

SYNONYMS ==
     (<<"F","e","v","e","r">> :> \* "Fever"
       << <<"h","i","g","h"," ","t","e","m","p","e","r","a","t","u","r","e">>,
          <<"h","o","t">>,
          <<"p","y","r","e","x","i","a">>,
          <<"b","u","r","n","i","n","g"," ","u","p">>,
          <<"c","h","i","l","l","s">>,
          <<"f","e","v","e","r","i","s","h">>,
          <<"f","e","e","l","i","n","g"," ","h","o","t">> >>)
  @@ (<<"F","a","t","i","g","u","e">> :> \* "Fatigue"
       << <<"t","i","r","e","d">>,
          <<"e","x","h","a","u","s","t","i","o","n">>,
          <<"w","e","a","k">>,
          <<"w","e","a","r","y">>,
          <<"l","e","t","h","a","r","g","y">>,
          <<"d","r","a","i","n","e","d">>,
          <<"n","o"," ","e","n","e","r","g","y">>,
          <<"s","l","e","e","p","y">>,
          <<"b","u","r","n","o","u","t">> >>)
  @@ (<<"N","a","u","s","e","a">> :> \* "Nausea"
       << <<"q","u","e","a","s","y">>,
          <<"s","i","c","k"," ","t","o"," ","s","t","o","m","a","c","h">>,
          <<"u","r","g","e","s"," ","t","o"," ","v","o","m","i","t">>,
          <<"u","p","s","e","t"," ","s","t","o","m","a","c","h">>,
          <<"n","a","u","s","e","o","u","s">>,
          <<"g","r","o","g","g","y">> >>)
  @@ (<<"V","o","m","i","t","i","n","g">> :> \* "Vomiting"
       << <<"t","h","r","o","w","i","n","g"," ","u","p">>,
          <<"p","u","k","e">>,
          <<"b","a","r","f">>,
          <<"s","i","c","k","n","e","s","s">>,
          <<"r","e","t","c","h","i","n","g">>,
          <<"h","e","a","v","i","n","g">> >>)
  @@ (<<"A","b","d","o","m","i","n","a","l"," ","p","a","i","n">> :> \* "Abdominal pain"
       << <<"s","t","o","m","a","c","h"," ","a","c","h","e">>,
          <<"b","e","l","l","y"," ","p","a","i","n">>,
          <<"t","u","m","m","y"," ","a","c","h","e">>,
          <<"g","u","t"," ","p","a","i","n">>,
          <<"c","r","a","m","p","s">>,
          <<"s","t","o","m","a","c","h"," ","p","a","i","n">>,
          <<"p","a","i","n"," ","i","n"," ","s","t","o","m","a","c","h">>,
          <<"g","a","s","t","r","i","t","i","s">> >>)
  @@ (<<"D","i","a","r","r","h","e","a">> :> \* "Diarrhea"
       << <<"r","u","n","n","y"," ","s","t","o","o","l">>,
          <<"l","o","o","s","e"," ","s","t","o","o","l","s">>,
          <<"t","h","e"," ","r","u","n","s">>,
          <<"p","o","o","p">>,
          <<"l","i","q","u","i","d"," ","s","t","o","o","l">>,
          <<"d","y","s","e","n","t","e","r","y">>,
          <<"b","o","w","e","l"," ","i","s","s","u","e","s">> >>)
  @@ (<<"S","h","o","r","t","n","e","s","s"," ","o","f"," ","b","r","e","a","t","h">> :> \* "Shortness of breath"
       << <<"d","y","s","p","n","e","a">>,
          <<"h","a","r","d"," ","t","o"," ","b","r","e","a","t","h","e">>,
          <<"w","i","n","d","e","d">>,
          <<"g","a","s","p","i","n","g">>,
          <<"c","a","n","t"," ","b","r","e","a","t","h","e">>,
          <<"b","r","e","a","t","h","l","e","s","s">>,
          <<"s","h","o","r","t"," ","b","r","e","a","t","h">>,
          <<"a","i","r"," ","h","u","n","g","e","r">> >>)
  @@ (<<"E","d","e","m","a">> :> \* "Edema"
       << <<"s","w","e","l","l","i","n","g">>,
          <<"p","u","f","f","y">>,
          <<"f","l","u","i","d"," ","r","e","t","e","n","t","i","o","n">>,
          <<"s","w","o","l","l","e","n">>,
          <<"b","l","o","a","t","e","d">>,
          <<"p","u","f","f","i","n","e","s","s">> >>)
  @@ (<<"H","e","a","d","a","c","h","e">> :> \* "Headache"
       << <<"m","i","g","r","a","i","n","e">>,
          <<"h","e","a","d"," ","p","a","i","n">>,
          <<"t","h","r","o","b","b","i","n","g"," ","h","e","a","d">>,
          <<"s","p","l","i","t","t","i","n","g"," ","h","e","a","d","a","c","h","e">>,
          <<"t","e","n","s","i","o","n"," ","h","e","a","d","a","c","h","e">>,
          <<"h","e","a","d"," ","p","r","e","s","s","u","r","e">> >>)
  @@ (<<"I","n","s","o","m","n","i","a">> :> \* "Insomnia"
       << <<"c","a","n","t"," ","s","l","e","e","p">>,
          <<"s","l","e","e","p","l","e","s","s">>,
          <<"a","w","a","k","e">>,
          <<"t","r","o","u","b","l","e"," ","s","l","e","e","p","i","n","g">>,
          <<"r","e","s","t","l","e","s","s">>,
          <<"w","a","k","i","n","g"," ","u","p">> >>)
  @@ (<<"W","e","i","g","h","t"," ","l","o","s","s">> :> \* "Weight loss"
       << <<"l","o","s","t"," ","w","e","i","g","h","t">>,
          <<"s","k","i","n","n","y">>,
          <<"t","h","i","n">>,
          <<"s","h","e","d","d","i","n","g"," ","p","o","u","n","d","s">>,
          <<"a","n","o","r","e","x","i","a">> >>)
  @@ (<<"H","y","p","e","r","t","e","n","s","i","o","n">> :> \* "Hypertension"
       << <<"h","i","g","h"," ","b","l","o","o","d"," ","p","r","e","s","s","u","r","e">>,
          <<"b","p">>,
          <<"e","l","e","v","a","t","e","d"," ","p","r","e","s","s","u","r","e">> >>)
  @@ (<<"C","h","e","s","t"," ","p","a","i","n">> :> \* "Chest pain"
       << <<"a","n","g","i","n","a">>,
          <<"t","i","g","h","t"," ","c","h","e","s","t">>,
          <<"p","r","e","s","s","u","r","e">>,
          <<"h","e","a","r","t"," ","p","a","i","n">>,
          <<"c","h","e","s","t"," ","t","i","g","h","t","n","e","s","s">>,
          <<"h","e","a","v","y"," ","c","h","e","s","t">> >>)
  @@ (<<"R","a","s","h">> :> \* "Rash"
       << <<"s","p","o","t","s">>,
          <<"h","i","v","e","s">>,
          <<"b","r","e","a","k","o","u","t">>,
          <<"s","k","i","n"," ","i","r","r","i","t","a","t","i","o","n">>,
          <<"i","t","c","h","y"," ","s","k","i","n">>,
          <<"r","e","d","n","e","s","s">>,
          <<"e","c","z","e","m","a">>,
          <<"d","e","r","m","a","t","i","t","i","s">>,
          <<"a","c","n","e">> >>)
  @@ (<<"J","o","i","n","t"," ","p","a","i","n">> :> \* "Joint pain"
       << <<"a","r","t","h","r","i","t","i","s">>,
          <<"s","t","i","f","f"," ","j","o","i","n","t","s">>,
          <<"a","c","h","i","n","g"," ","j","o","i","n","t","s">>,
          <<"k","n","e","e"," ","p","a","i","n">>,
          <<"e","l","b","o","w"," ","p","a","i","n">>,
          <<"w","r","i","s","t"," ","p","a","i","n">>,
          <<"h","i","p"," ","p","a","i","n">>,
          <<"g","o","u","t">> >>)
  @@ (<<"C","o","u","g","h">> :> \* "Cough"
       << <<"c","o","u","g","h","i","n","g">>,
          <<"h","a","c","k">>,
          <<"p","h","l","e","g","m">>,
          <<"d","r","y"," ","c","o","u","g","h">>,
          <<"w","e","t"," ","c","o","u","g","h">>,
          <<"b","a","r","k","i","n","g"," ","c","o","u","g","h">> >>)
  @@ (<<"S","o","r","e"," ","t","h","r","o","a","t">> :> \* "Sore throat"
       << <<"t","h","r","o","a","t"," ","p","a","i","n">>,
          <<"h","u","r","t","s"," ","t","o"," ","s","w","a","l","l","o","w">>,
          <<"p","h","a","r","y","n","g","i","t","i","s">>,
          <<"s","c","r","a","t","c","h","y"," ","t","h","r","o","a","t">>,
          <<"s","t","r","e","p">>,
          <<"t","o","n","s","i","l","l","i","t","i","s">> >>)
  @@ (<<"D","i","z","z","i","n","e","s","s">> :> \* "Dizziness"
       << <<"l","i","g","h","t","h","e","a","d","e","d">>,
          <<"s","p","i","n","n","i","n","g">>,
          <<"v","e","r","t","i","g","o">>,
          <<"u","n","s","t","e","a","d","y">>,
          <<"f","a","i","n","t">>,
          <<"w","o","o","z","y">>,
          <<"b","a","l","a","n","c","e"," ","i","s","s","u","e","s">> >>)
  @@ (<<"P","a","l","p","i","t","a","t","i","o","n","s">> :> \* "Palpitations"
       << <<"r","a","c","i","n","g"," ","h","e","a","r","t">>,
          <<"h","e","a","r","t"," ","s","k","i","p">>,
          <<"f","l","u","t","t","e","r","i","n","g">>,
          <<"t","h","u","m","p","i","n","g">>,
          <<"r","a","p","i","d"," ","h","e","a","r","t","b","e","a","t">>,
          <<"h","e","a","r","t"," ","p","o","u","n","d","i","n","g">> >>)
  @@ (<<"T","r","e","m","o","r","s">> :> \* "Tremors"
       << <<"s","h","a","k","i","n","g">>,
          <<"s","h","i","v","e","r","s">>,
          <<"t","w","i","t","c","h","i","n","g">>,
          <<"t","r","e","m","b","l","i","n","g">>,
          <<"s","h","a","k","e","s">> >>)
  @@ (<<"V","i","s","i","o","n"," ","c","h","a","n","g","e","s">> :> \* "Vision changes"
       << <<"b","l","u","r","r","y"," ","v","i","s","i","o","n">>,
          <<"s","e","e","i","n","g"," ","d","o","u","b","l","e">>,
          <<"v","i","s","i","o","n"," ","l","o","s","s">>,
          <<"s","p","o","t","s"," ","i","n"," ","e","y","e","s">>,
          <<"b","l","i","n","d","n","e","s","s">>,
          <<"e","y","e"," ","s","t","r","a","i","n">> >>)
  @@ (<<"C","o","n","f","u","s","i","o","n">> :> \* "Confusion"
       << <<"d","i","s","o","r","i","e","n","t","e","d">>,
          <<"b","r","a","i","n"," ","f","o","g">>,
          <<"m","i","x","e","d"," ","u","p">>,
          <<"d","e","l","i","r","i","u","m">>,
          <<"m","e","m","o","r","y"," ","l","o","s","s">>,
          <<"f","o","r","g","e","t","f","u","l">> >>)
  @@ (<<"N","u","m","b","n","e","s","s">> :> \* "Numbness"
       << <<"t","i","n","g","l","i","n","g">>,
          <<"p","i","n","s"," ","a","n","d"," ","n","e","e","d","l","e","s">>,
          <<"l","o","s","s"," ","o","f"," ","s","e","n","s","a","t","i","o","n">>,
          <<"a","s","l","e","e","p"," ","l","i","m","b">>,
          <<"p","a","r","e","s","t","h","e","s","i","a">> >>)
  @@ (<<"C","o","n","s","t","i","p","a","t","i","o","n">> :> \* "Constipation"
       << <<"c","a","n","t"," ","p","o","o","p">>,
          <<"h","a","r","d"," ","s","t","o","o","l">>,
          <<"b","l","o","c","k","e","d">>,
          <<"i","r","r","e","g","u","l","a","r">>,
          <<"s","t","r","a","i","n","e","d"," ","b","o","w","e","l">> >>)
  @@ (<<"I","n","d","i","g","e","s","t","i","o","n">> :> \* "Indigestion"
       << <<"h","e","a","r","t","b","u","r","n">>,
          <<"a","c","i","d"," ","r","e","f","l","u","x">>,
          <<"g","e","r","d">>,
          <<"b","u","r","p","i","n","g">>,
          <<"g","a","s">>,
          <<"b","l","o","a","t","i","n","g">> >>)
  @@ (<<"M","u","s","c","l","e"," ","a","c","h","e">> :> \* "Muscle ache"
       << <<"b","o","d","y"," ","a","c","h","e">>,
          <<"s","o","r","e"," ","m","u","s","c","l","e","s">>,
          <<"p","a","i","n","f","u","l"," ","m","u","s","c","l","e","s">>,
          <<"m","y","a","l","g","i","a">>,
          <<"c","r","a","m","p","s">> >>)
  @@ (<<"R","u","n","n","y"," ","n","o","s","e">> :> \* "Runny nose"
       << <<"s","n","o","t">>,
          <<"b","o","o","g","e","r","s">>,
          <<"n","a","s","a","l"," ","d","r","i","p">>,
          <<"r","h","i","n","o","r","r","h","e","a">>,
          <<"s","t","u","f","f","y"," ","n","o","s","e">> >>)
  @@ (<<"S","n","e","e","z","i","n","g">> :> \* "Sneezing"
       << <<"a","c","h","o","o">>,
          <<"s","n","e","e","z","e","s">>,
          <<"a","l","l","e","r","g","y">> >>)
  @@ (<<"I","t","c","h","i","n","g">> :> \* "Itching"
       << <<"s","c","r","a","t","c","h","y">>,
          <<"i","t","c","h">>,
          <<"p","r","u","r","i","t","u","s">> >>)
  @@ (<<"W","a","t","e","r","y"," ","e","y","e","s">> :> \* "Watery eyes"
       << <<"t","e","a","r","i","n","g">>,
          <<"c","r","y","i","n","g">>,
          <<"t","e","a","r","y">>,
          <<"r","e","d"," ","e","y","e","s">> >>)
  @@ (<<"C","h","i","l","l","s">> :> \* "Chills"
       << <<"s","h","i","v","e","r","i","n","g">>,
          <<"c","o","l","d">>,
          <<"g","o","o","s","e","b","u","m","p","s">>,
          <<"f","e","e","l","i","n","g"," ","c","o","l","d">> >>)
  @@ (<<"S","w","e","a","t","i","n","g">> :> \* "Sweating"
       << <<"p","e","r","s","p","i","r","a","t","i","o","n">>,
          <<"s","w","e","a","t","y">>,
          <<"c","l","a","m","m","y">>,
          <<"h","o","t"," ","f","l","a","s","h","e","s">> >>)
  @@ (<<"N","i","g","h","t"," ","s","w","e","a","t","s">> :> \* "Night sweats"
       << <<"s","w","e","a","t","i","n","g"," ","a","t"," ","n","i","g","h","t">>,
          <<"s","o","a","k","e","d"," ","s","h","e","e","t","s">> >>)
  @@ (<<"A","n","x","i","e","t","y">> :> \* "Anxiety"
       << <<"n","e","r","v","o","u","s">>,
          <<"w","o","r","r","y">>,
          <<"p","a","n","i","c">>,
          <<"s","t","r","e","s","s">>,
          <<"u","n","e","a","s","y">>,
          <<"f","e","a","r">>,
          <<"t","e","n","s","i","o","n">> >>)
  @@ (<<"D","e","p","r","e","s","s","i","o","n">> :> \* "Depression"
       << <<"s","a","d">>,
          <<"d","o","w","n">>,
          <<"h","o","p","e","l","e","s","s">>,
          <<"u","n","h","a","p","p","y">>,
          <<"b","l","u","e","s">>,
          <<"l","o","w"," ","m","o","o","d">> >>)
  @@ (<<"M","o","o","d"," ","s","w","i","n","g","s">> :> \* "Mood swings"
       << <<"e","m","o","t","i","o","n","a","l">>,
          <<"i","r","r","i","t","a","b","l","e">>,
          <<"b","i","p","o","l","a","r">> >>)

COMMON_GROUPS ==
  << << <<"F","e","v","e","r">>, <<"C","o","u","g","h">>, <<"S","o","r","e"," ","t","h","r","o","a","t">>, <<"F","a","t","i","g","u","e">>, <<"C","h","i","l","l","s">>, <<"R","u","n","n","y"," ","n","o","s","e">>, <<"C","o","n","g","e","s","t","i","o","n">> >>,
     << <<"N","a","u","s","e","a">>, <<"V","o","m","i","t","i","n","g">>, <<"A","b","d","o","m","i","n","a","l"," ","p","a","i","n">>, <<"D","i","a","r","r","h","e","a">>, <<"B","l","o","a","t","i","n","g">>, <<"I","n","d","i","g","e","s","t","i","o","n">>, <<"C","o","n","s","t","i","p","a","t","i","o","n">> >>,
     << <<"H","e","a","d","a","c","h","e">>, <<"B","a","c","k"," ","p","a","i","n">>, <<"M","u","s","c","l","e"," ","a","c","h","e">>, <<"J","o","i","n","t"," ","p","a","i","n">>, <<"C","h","e","s","t"," ","p","a","i","n">>, <<"N","e","c","k"," ","p","a","i","n">> >>,
     << <<"R","u","n","n","y"," ","n","o","s","e">>, <<"S","n","e","e","z","i","n","g">>, <<"I","t","c","h","i","n","g">>, <<"R","a","s","h">>, <<"W","a","t","e","r","y"," ","e","y","e","s">>, <<"H","i","v","e","s">> >> >>

CATEGORIES ==
  << [name |-> <<"G","e","n","e","r","a","l">>, \* "General"
        items |-> << <<"F","e","v","e","r">>,
                     <<"F","a","t","i","g","u","e">>,
                     <<"C","h","i","l","l","s">>,
                     <<"W","e","a","k","n","e","s","s">>,
                     <<"D","i","z","z","i","n","e","s","s">>,
                     <<"I","n","s","o","m","n","i","a">>,
                     <<"W","e","i","g","h","t"," ","l","o","s","s">>,
                     <<"N","i","g","h","t"," ","s","w","e","a","t","s">>,
                     <<"S","w","e","a","t","i","n","g">> >>],
     [name |-> <<"R","e","s","p","i","r","a","t","o","r","y">>, \* "Respiratory"
        items |-> << <<"C","o","u","g","h">>,
                     <<"S","h","o","r","t","n","e","s","s"," ","o","f"," ","b","r","e","a","t","h">>,
                     <<"S","o","r","e"," ","t","h","r","o","a","t">>,
                     <<"R","u","n","n","y"," ","n","o","s","e">>,
                     <<"W","h","e","e","z","i","n","g">>,
                     <<"C","h","e","s","t"," ","c","o","n","g","e","s","t","i","o","n">>,
                     <<"C","o","n","g","e","s","t","i","o","n">>,
                     <<"S","n","e","e","z","i","n","g">> >>],
     [name |-> <<"D","i","g","e","s","t","i","v","e">>, \* "Digestive"
        items |-> << <<"N","a","u","s","e","a">>,
                     <<"V","o","m","i","t","i","n","g">>,
                     <<"D","i","a","r","r","h","e","a">>,
                     <<"A","b","d","o","m","i","n","a","l"," ","p","a","i","n">>,
                     <<"B","l","o","a","t","i","n","g">>,
                     <<"H","e","a","r","t","b","u","r","n">>,
                     <<"L","o","s","s"," ","o","f"," ","a","p","p","e","t","i","t","e">>,
                     <<"I","n","d","i","g","e","s","t","i","o","n">>,
                     <<"C","o","n","s","t","i","p","a","t","i","o","n">> >>],
     [name |-> <<"C","a","r","d","i","o","v","a","s","c","u","l","a","r">>, \* "Cardiovascular"
        items |-> << <<"C","h","e","s","t"," ","p","a","i","n">>,
                     <<"P","a","l","p","i","t","a","t","i","o","n","s">>,
                     <<"F","a","s","t"," ","h","e","a","r","t"," ","r","a","t","e">>,
                     <<"S","w","o","l","l","e","n"," ","l","e","g","s">>,
                     <<"C","o","l","d"," ","e","x","t","r","e","m","i","t","i","e","s">>,
                     <<"I","r","r","e","g","u","l","a","r"," ","h","e","a","r","t","b","e","a","t">> >>],
     [name |-> <<"N","e","u","r","o","l","o","g","i","c","a","l">>, \* "Neurological"
        items |-> << <<"H","e","a","d","a","c","h","e">>,
                     <<"C","o","n","f","u","s","i","o","n">>,
                     <<"N","u","m","b","n","e","s","s">>,
                     <<"T","r","e","m","o","r","s">>,
                     <<"S","e","i","z","u","r","e","s">>,
                     <<"S","l","u","r","r","e","d"," ","s","p","e","e","c","h">>,
                     <<"V","i","s","i","o","n"," ","c","h","a","n","g","e","s">> >>],
     [name |-> <<"P","a","i","n">>, \* "Pain"
        items |-> << <<"B","a","c","k"," ","p","a","i","n">>,
                     <<"J","o","i","n","t"," ","p","a","i","n">>,
                     <<"M","u","s","c","l","e"," ","a","c","h","e">>,
                     <<"N","e","c","k"," ","p","a","i","n">>,
                     <<"S","h","a","r","p"," ","p","a","i","n">>,
                     <<"D","u","l","l"," ","a","c","h","e">> >>],
     [name |-> <<"S","k","i","n">>, \* "Skin"
        items |-> << <<"R","a","s","h">>,
                     <<"I","t","c","h","i","n","g">>,
                     <<"R","e","d","n","e","s","s">>,
                     <<"S","w","e","l","l","i","n","g">>,
                     <<"B","r","u","i","s","i","n","g">>,
                     <<"D","r","y"," ","s","k","i","n">>,
                     <<"H","i","v","e","s">>,
                     <<"W","a","t","e","r","y"," ","e","y","e","s">> >>],
     [name |-> <<"M","e","n","t","a","l"," ","H","e","a","l","t","h">>, \* "Mental Health"
        items |-> << <<"A","n","x","i","e","t","y">>,
                     <<"D","e","p","r","e","s","s","i","o","n">>,
                     <<"M","o","o","d"," ","s","w","i","n","g","s">>,
                     <<"P","a","n","i","c"," ","a","t","t","a","c","k","s">>,
                     <<"S","t","r","e","s","s">>,
                     <<"I","r","r","i","t","a","b","i","l","i","t","y">> >>] >>

(***************************************************************************)
(* String primitives of JavaScript on sequences of characters              *)
(***************************************************************************)

UpperToLower ==
     ("A" :> "a") @@ ("B" :> "b") @@ ("C" :> "c") @@ ("D" :> "d") @@ ("E" :> "e")
  @@ ("F" :> "f") @@ ("G" :> "g") @@ ("H" :> "h") @@ ("I" :> "i") @@ ("J" :> "j")
  @@ ("K" :> "k") @@ ("L" :> "l") @@ ("M" :> "m") @@ ("N" :> "n") @@ ("O" :> "o")
  @@ ("P" :> "p") @@ ("Q" :> "q") @@ ("R" :> "r") @@ ("S" :> "s") @@ ("T" :> "t")
  @@ ("U" :> "u") @@ ("V" :> "v") @@ ("W" :> "w") @@ ("X" :> "x") @@ ("Y" :> "y")
  @@ ("Z" :> "z")

UpperCaseLetters == DOMAIN UpperToLower

WhiteSpace == {" ", "\t", "\n"}

\* Variant: the case of letters is kept.
toLowerCaseChar_Identity(c) == c

toLowerCaseChar(c) == IF c \in UpperCaseLetters THEN UpperToLower[c] ELSE c

RECURSIVE toLowerCase(_)
toLowerCase(s) ==
  IF s = <<>> THEN <<>> ELSE <<toLowerCaseChar(Head(s))>> \o toLowerCase(Tail(s))

RECURSIVE trimStart(_)
trimStart(s) ==
  IF s # <<>> /\ Head(s) \in WhiteSpace THEN trimStart(Tail(s)) ELSE s

RECURSIVE trimEnd(_)
trimEnd(s) ==
  IF s # <<>> /\ s[Len(s)] \in WhiteSpace THEN trimEnd(SubSeq(s, 1, Len(s) - 1)) ELSE s

\* Variant: the string is used as typed.
trim_Identity(s) == s

trim(s) == trimEnd(trimStart(s))

\* Variant: the query is looked for at the end of the text.
startsWith_AtEnd(t, q) ==
  Len(q) <= Len(t) /\ SubSeq(t, Len(t) - Len(q) + 1, Len(t)) = q

startsWith(t, q) == Len(q) <= Len(t) /\ SubSeq(t, 1, Len(q)) = q

includes(t, q) ==
  \E i \in 0..(Len(t) - Len(q)) : SubSeq(t, i + 1, i + Len(q)) = q

Min3(x, y, z) ==
  IF x <= y THEN (IF x <= z THEN x ELSE z) ELSE (IF y <= z THEN y ELSE z)

(***************************************************************************)
(* levenshteinDistance: the matrix is filled row by row; a row is kept as  *)
(* a sequence whose element j + 1 is matrix[i][j].                         *)
(***************************************************************************)

\* Variant: the deletion term is missing from the minimum.
RECURSIVE LevRow_NoDeletion(_, _, _, _, _)
LevRow_NoDeletion(a, bc, prev, cur, j) ==
  IF j > Len(a) THEN cur
  ELSE LevRow_NoDeletion(a, bc, prev,
              Append(cur, IF bc = a[j]
                          THEN prev[j]
                          ELSE IF prev[j] + 1 <= cur[j] + 1
                               THEN prev[j] + 1 ELSE cur[j] + 1),
              j + 1)

\* Variant: a substitution costs nothing.
RECURSIVE LevRow_FreeSubstitution(_, _, _, _, _)
LevRow_FreeSubstitution(a, bc, prev, cur, j) ==
  IF j > Len(a) THEN cur
  ELSE LevRow_FreeSubstitution(a, bc, prev,
              Append(cur, IF bc = a[j]
                          THEN prev[j]
                          ELSE Min3(prev[j], cur[j] + 1, prev[j + 1] + 1)),
              j + 1)

RECURSIVE LevRow(_, _, _, _, _)
LevRow(a, bc, prev, cur, j) ==
  IF j > Len(a) THEN cur
  ELSE LevRow(a, bc, prev,
              Append(cur, IF bc = a[j]
                          THEN prev[j]
                          ELSE Min3(prev[j] + 1, cur[j] + 1, prev[j + 1] + 1)),
              j + 1)

\* One pass of the outer loop per call.  The length test is always true; it
\* makes the row a value before the next row is computed from it.
RECURSIVE LevRows(_, _, _, _)
LevRows(a, b, prev, i) ==
  IF i > Len(b) THEN prev
  ELSE LET cur == LevRow(a, b[i], prev, <<i>>, 1)
       IN  IF Len(cur) = Len(prev) THEN LevRows(a, b, cur, i + 1) ELSE cur

levenshteinDistance(a, b) ==
  LevRows(a, b, [j \in 1..(Len(a) + 1) |-> j - 1], 1)[Len(a) + 1]

(***************************************************************************)
(* getMatchScore                                                           *)
(***************************************************************************)

\* Variant: two errors are allowed from five characters on.
allowedErrors_FromFive(q) == IF Len(q) >= 5 THEN 2 ELSE 1

allowedErrors(q) == IF Len(q) > 5 THEN 2 ELSE 1

fuzzyScore(t, q) ==
  IF Len(q) > 2
  THEN LET distance == levenshteinDistance(q, t)
       IN  IF distance <= allowedErrors(q)
           THEN 50 - (distance * 10)
           ELSE 0
  ELSE 0

\* Variant: the substring test comes before the prefix test.
getMatchScore_ContainsFirst(text, query) ==
  LET t == toLowerCase(text)
      q == toLowerCase(query)
  IN  IF t = q THEN 100
      ELSE IF includes(t, q) THEN 60
      ELSE IF startsWith(t, q) THEN 80
      ELSE fuzzyScore(t, q)

getMatchScore(text, query) ==
  LET t == toLowerCase(text)
      q == toLowerCase(query)
  IN  IF t = q THEN 100
      ELSE IF startsWith(t, q) THEN 80
      ELSE IF includes(t, q) THEN 60
      ELSE fuzzyScore(t, q)

(***************************************************************************)
(* displayedCategories (the useMemo of SymptomSelector)                    *)
(***************************************************************************)

All == <<"A","l","l">>

Null == [null |-> TRUE]

\* Variant: only the first synonym is consulted.
maxSynonymScore_FirstOnly(itemSynonyms, query, maxScore) ==
  IF itemSynonyms = <<>> THEN maxScore
  ELSE LET synScore == getMatchScore(Head(itemSynonyms), query)
       IN  IF synScore > maxScore THEN synScore ELSE maxScore

RECURSIVE maxSynonymScore(_, _, _)
maxSynonymScore(itemSynonyms, query, maxScore) ==
  IF itemSynonyms = <<>> THEN maxScore
  ELSE LET synScore == getMatchScore(Head(itemSynonyms), query)
       IN  maxSynonymScore(Tail(itemSynonyms), query,
                           IF synScore > maxScore THEN synScore ELSE maxScore)

\* Variant: the synonyms are not consulted.
scoreItem_NameOnly(item, query) ==
  [item |-> item, score |-> getMatchScore(item, query)]

scoreItem(item, query) ==
  LET nameScore == getMatchScore(item, query)
  IN  [item  |-> item,
       score |-> IF item \in DOMAIN SYNONYMS
                 THEN maxSynonymScore(SYNONYMS[item], query, nameScore)
                 ELSE nameScore]

scoredItems(items, query) == [i \in 1..Len(items) |-> scoreItem(items[i], query)]

\* Variant: a score of 0 counts as relevant.
isRelevant_NonNegative(i) == i.score >= 0

isRelevant(i) == i.score > 0

\* Array.prototype.sort with comparator (a, b) => b.score - a.score: a stable
\* sort, realised here as insertion from the right.
\* Variant: an element is placed after the elements of equal score.
RECURSIVE insertByScore_AfterEquals(_, _)
insertByScore_AfterEquals(x, sorted) ==
  IF sorted = <<>> THEN <<x>>
  ELSE IF Head(sorted).score - x.score >= 0
       THEN <<Head(sorted)>> \o insertByScore_AfterEquals(x, Tail(sorted))
       ELSE <<x>> \o sorted

RECURSIVE insertByScore(_, _)
insertByScore(x, sorted) ==
  IF sorted = <<>> THEN <<x>>
  ELSE IF Head(sorted).score - x.score > 0
       THEN <<Head(sorted)>> \o insertByScore(x, Tail(sorted))
       ELSE <<x>> \o sorted

RECURSIVE sortByScoreDesc(_)
sortByScoreDesc(s) ==
  IF s = <<>> THEN <<>>
  ELSE insertByScore(Head(s), sortByScoreDesc(Tail(s)))

\* Variants: a threshold that no score reaches, and one that a prefix reaches.
isStrongCategoryMatch_Above100(categoryScore) == categoryScore > 100
isStrongCategoryMatch_From80(categoryScore) == categoryScore >= 80

isStrongCategoryMatch(categoryScore) == categoryScore >= 90

itemNames(scored) == [i \in 1..Len(scored) |-> scored[i].item]

\* Variant: a strong match on the name shows a category that is not active.
displayCategory_StrongMatchFirst(data, searchQuery, activeCategories) ==
  LET category == data.name
      isAll == All \in activeCategories
      query == trim(searchQuery)
  IN  IF query # <<>> /\ isStrongCategoryMatch(getMatchScore(category, query))
      THEN data
      ELSE IF ~isAll /\ category \notin activeCategories THEN Null
      ELSE IF query = <<>> THEN data
      ELSE LET relevantItems ==
                 sortByScoreDesc(SelectSeq(scoredItems(data.items, query), isRelevant))
           IN  IF Len(relevantItems) > 0
               THEN [name |-> category, items |-> itemNames(relevantItems)]
               ELSE Null

\* Variant: a category is returned although none of its items is relevant.
displayCategory_KeepsEmpty(data, searchQuery, activeCategories) ==
  LET category == data.name
      isAll == All \in activeCategories
      query == trim(searchQuery)
  IN  IF ~isAll /\ category \notin activeCategories THEN Null
      ELSE IF query = <<>> THEN data
      ELSE LET categoryScore == getMatchScore(category, query)
               relevantItems ==
                 sortByScoreDesc(SelectSeq(scoredItems(data.items, query), isRelevant))
           IN  IF isStrongCategoryMatch(categoryScore) THEN data
               ELSE [name |-> category, items |-> itemNames(relevantItems)]

displayCategory(data, searchQuery, activeCategories) ==
  LET category == data.name
      isAll == All \in activeCategories
      query == trim(searchQuery)
  IN  IF ~isAll /\ category \notin activeCategories THEN Null
      ELSE IF query = <<>> THEN data
      ELSE LET categoryScore == getMatchScore(category, query)
               relevantItems ==
                 sortByScoreDesc(SelectSeq(scoredItems(data.items, query), isRelevant))
           IN  IF isStrongCategoryMatch(categoryScore) THEN data
               ELSE IF Len(relevantItems) > 0
                    THEN [name |-> category, items |-> itemNames(relevantItems)]
                    ELSE Null

isNotNull(x) == x # Null

\* Variant: the categories are visited from the last to the first.
displayedCategories_Reversed(searchQuery, activeCategories) ==
  SelectSeq([k \in 1..Len(CATEGORIES) |->
               displayCategory(CATEGORIES[Len(CATEGORIES) + 1 - k], searchQuery,
                               activeCategories)],
            isNotNull)

displayedCategories(searchQuery, activeCategories) ==
  SelectSeq([k \in 1..Len(CATEGORIES) |->
               displayCategory(CATEGORIES[k], searchQuery, activeCategories)],
            isNotNull)

(***************************************************************************)
(* Strings used as inputs                                                  *)
(***************************************************************************)

Fever == <<"F","e","v","e","r">>
BackPain == <<"B","a","c","k"," ","p","a","i","n">>
General == <<"G","e","n","e","r","a","l">>
Pain == <<"P","a","i","n">>
Str_feve == <<"f","e","v","e">>
AbdominalPain == <<"A","b","d","o","m","i","n","a","l"," ","p","a","i","n">>
Digestive == <<"D","i","g","e","s","t","i","v","e">>
Respiratory == <<"R","e","s","p","i","r","a","t","o","r","y">>
MentalHealth == <<"M","e","n","t","a","l"," ","H","e","a","l","t","h">>
Skin == <<"S","k","i","n">>
Headache == <<"H","e","a","d","a","c","h","e">>
Str_Pai == <<"P","a","i">>
Str_Resp == <<"R","e","s","p">>
Str_gen == <<"g","e","n">>
Str_pain_padded == <<" ","p","a","i","n"," ">>
Str_GENERAL == <<"G","E","N","E","R","A","L">>
Str_mental_health == <<"m","e","n","t","a","l"," ","h","e","a","l","t","h">>
Str_hot == <<"h","o","t">>
Str_hedache == <<"h","e","d","a","c","h","e">>
Str_xyz123 == <<"x","y","z","1","2","3">>
Str_tummy_ache == <<"t","u","m","m","y"," ","a","c","h","e">>
Str_bp == <<"b","p">>
Str_ache == <<"a","c","h","e">>
Str_Mental == <<"M","e","n","t","a","l">>
Str_coff == <<"c","o","f","f">>
Str_fevre == <<"f","e","v","r","e">>
Str_FEVER == <<"F","E","V","E","R">>
JointPain == <<"J","o","i","n","t"," ","p","a","i","n">>
MuscleAche == <<"M","u","s","c","l","e"," ","a","c","h","e">>
Cardiovascular == <<"C","a","r","d","i","o","v","a","s","c","u","l","a","r">>
Neurological == <<"N","e","u","r","o","l","o","g","i","c","a","l">>
Str_s == <<"s">>
Str_pa == <<"p","a">>
Str_ACHE == <<"A","C","H","E">>
Str_stres == <<"s","t","r","e","s">>
Str_Card == <<"C","a","r","d">>
Str_pian == <<"p","i","a","n">>
Str_cold == <<"c","o","l","d">>
Str_heart == <<"h","e","a","r","t">>
Str_swel == <<"s","w","e","l">>

\* The absent value of a string-typed field (a sequence no string equals).
NullString == <<"null">>

(***************************************************************************)
(* Bounds and input sets                                                   *)
(***************************************************************************)

\* handleConfirm is explored while the free-text field is at most this long.
MaxSymptomsLen == 9

\* What the user types into the search box, the chips and the symptom
\* buttons the user clicks.
QueryInputs == {<<>>, <<" ">>, Str_feve}
CategoryInputs == {All, General, Pain}
SymptomInputs == {Fever, BackPain}

(***************************************************************************)
(* State: the useState cells of App and of SymptomSelector, and `call',    *)
(* the frame of a pure function being applied on its own.                  *)
(***************************************************************************)

VARIABLES isSymptomModalOpen, symptoms, analysis,
          selected, searchQuery, activeCategories,
          call,
          selectedFile, isHistoryModalOpen, savedReports,
          localStorage, requests, now

\* App's useState cells, and what App talks to: the browser's localStorage,
\* the calls of analyzeMedicalData that have not settled, and Date.now().
appVars == <<isSymptomModalOpen, symptoms, analysis,
             selectedFile, isHistoryModalOpen, savedReports,
             localStorage, requests, now>>
selectorVars == <<selected, searchQuery, activeCategories>>
vars == <<isSymptomModalOpen, symptoms, analysis,
          selected, searchQuery, activeCategories, call,
          selectedFile, isHistoryModalOpen, savedReports,
          localStorage, requests, now>>

hostVars == <<selectedFile, isHistoryModalOpen, savedReports, localStorage,
              requests, now>>

\* localStorage.getItem of a key that was never set
NoItem == [item |-> "null"]

\* App just mounted in a browser that holds no saved report.
FreshApp ==
  /\ isSymptomModalOpen = FALSE
  /\ symptoms = <<>>
  /\ analysis = [isLoading |-> FALSE, error |-> NullString, result |-> Null]
  /\ selectedFile = Null
  /\ isHistoryModalOpen = FALSE
  /\ savedReports = <<>>
  /\ localStorage = NoItem
  /\ requests = {}
  /\ now = 0

NoCall == [fn |-> "none"]

Range(s) == {s[i] : i \in 1..Len(s)}

categoryKeys == <<All>> \o [k \in 1..Len(CATEGORIES) |-> CATEGORIES[k].name]

\* The symptom buttons the selector renders: the "Frequent Conditions" groups
\* while nothing is typed and 'All' is active, and the displayed categories.
visibleItems(query, active) ==
  LET common == IF query = <<>> /\ All \in active
                THEN UNION {Range(COMMON_GROUPS[g]) : g \in 1..Len(COMMON_GROUPS)}
                ELSE {}
      shown == displayedCategories(query, active)
  IN  common \cup UNION {Range(shown[k].items) : k \in 1..Len(shown)}

(***************************************************************************)
(* App                                                                     *)
(***************************************************************************)

RECURSIVE join(_, _)
join(strings, sep) ==
  IF strings = <<>> THEN <<>>
  ELSE IF Len(strings) = 1 THEN Head(strings)
  ELSE Head(strings) \o sep \o join(Tail(strings), sep)

\* Variant: ", " is put before the names whatever the text ends with.
appendSymptoms_AlwaysComma(prev, selectedSymptoms) ==
  LET trimmed == trim(prev)
  IN  IF trimmed = <<>> THEN join(selectedSymptoms, <<",", " ">>)
      ELSE trimmed \o <<",", " ">> \o join(selectedSymptoms, <<",", " ">>)

appendSymptoms(prev, selectedSymptoms) ==
  LET trimmed == trim(prev)
      lastChar == trimmed[Len(trimmed)]
      separator == IF lastChar = "," \/ lastChar = "." THEN <<" ">> ELSE <<",", " ">>
  IN  IF trimmed = <<>> THEN join(selectedSymptoms, <<",", " ">>)
      ELSE trimmed \o separator \o join(selectedSymptoms, <<",", " ">>)

isTruthy(s) == s # NullString /\ s # <<>>

clearError(a) == IF isTruthy(a.error) THEN [a EXCEPT !.error = NullString] ELSE a

\* onSelect of the selector
handleSymptomsAdded(selectedSymptoms) ==
  /\ symptoms' = appendSymptoms(symptoms, selectedSymptoms)
  /\ analysis' = clearError(analysis)
  /\ UNCHANGED hostVars

\* The "Symptom Checker" button of the input form.
openSymptomSelector ==
  /\ ~isSymptomModalOpen
  /\ ~isHistoryModalOpen
  /\ ~analysis.isLoading
  /\ analysis.result = Null
  /\ isSymptomModalOpen' = TRUE
  /\ UNCHANGED <<symptoms, analysis, selectorVars, call, hostVars>>

\* onClose of the selector: the backdrop, the X button and Cancel.
onClose ==
  /\ isSymptomModalOpen
  /\ isSymptomModalOpen' = FALSE
  /\ UNCHANGED <<symptoms, analysis, selectorVars, call, hostVars>>

(***************************************************************************)
(* SymptomSelector                                                         *)
(***************************************************************************)

setSearchQuery(value) ==
  /\ isSymptomModalOpen
  /\ value # searchQuery
  /\ searchQuery' = value
  /\ UNCHANGED <<appVars, selected, activeCategories, call>>

clearSearch ==
  /\ isSymptomModalOpen
  /\ searchQuery # <<>>
  /\ searchQuery' = <<>>
  /\ UNCHANGED <<appVars, selected, activeCategories, call>>

\* A JavaScript Set keeps insertion order: a sequence without duplicates.
\* Variant: the symptom is added whether or not it is present.
toggledSelection_AlwaysAdds(sel, symptom) == Append(sel, symptom)

toggledSelection(sel, symptom) ==
  IF symptom \in Range(sel)
  THEN SelectSeq(sel, LAMBDA s : s # symptom)
  ELSE Append(sel, symptom)

toggleSymptom(symptom) ==
  /\ isSymptomModalOpen
  /\ symptom \in visibleItems(searchQuery, activeCategories)
  /\ selected' = toggledSelection(selected, symptom)
  /\ UNCHANGED <<appVars, searchQuery, activeCategories, call>>

\* Variant: an emptied selection is kept empty.
toggledCategories_NoReset(active, cat) ==
  IF cat = All THEN {All}
  ELSE LET withoutAll == active \ {All}
       IN  IF cat \in withoutAll THEN withoutAll \ {cat} ELSE withoutAll \cup {cat}

\* Variant: 'All' is not removed when a specific category is clicked.
toggledCategories_KeepAll(active, cat) ==
  IF cat = All THEN {All}
  ELSE LET newCats == IF cat \in active THEN active \ {cat} ELSE active \cup {cat}
       IN  IF Cardinality(newCats) = 0 THEN {All} ELSE newCats

toggledCategories(active, cat) ==
  IF cat = All THEN {All}
  ELSE LET withoutAll == active \ {All}
           newCats == IF cat \in withoutAll
                      THEN withoutAll \ {cat}
                      ELSE withoutAll \cup {cat}
       IN  IF Cardinality(newCats) = 0 THEN {All} ELSE newCats

toggleCategory(cat) ==
  /\ isSymptomModalOpen
  /\ activeCategories' = toggledCategories(activeCategories, cat)
  /\ UNCHANGED <<appVars, selected, searchQuery, call>>

\* Variant: the query and the categories are kept.
handleConfirm_KeepsFilter ==
  /\ isSymptomModalOpen
  /\ Len(selected) # 0
  /\ Len(symptoms) <= MaxSymptomsLen
  /\ handleSymptomsAdded(selected)
  /\ selected' = <<>>
  /\ isSymptomModalOpen' = FALSE
  /\ UNCHANGED <<searchQuery, activeCategories, call>>

handleConfirm ==
  /\ isSymptomModalOpen
  /\ Len(selected) # 0
  /\ Len(symptoms) <= MaxSymptomsLen
  /\ handleSymptomsAdded(selected)
  /\ selected' = <<>>
  /\ searchQuery' = <<>>
  /\ activeCategories' = {All}
  /\ isSymptomModalOpen' = FALSE
  /\ UNCHANGED call

Init ==
  /\ FreshApp
  /\ selected = <<>>
  /\ searchQuery = <<>>
  /\ activeCategories = {All}
  /\ call = NoCall

Next ==
  \/ openSymptomSelector
  \/ onClose
  \/ \E value \in QueryInputs : setSearchQuery(value)
  \/ clearSearch
  \/ \E symptom \in SymptomInputs : toggleSymptom(symptom)
  \/ \E cat \in CategoryInputs : toggleCategory(cat)
  \/ handleConfirm

Spec == Init /\ [][Next]_vars

(***************************************************************************)
(* getMatchScore applied on its own to bounded strings                     *)
(***************************************************************************)

MaxTextLen == 5
MaxQueryLen == 6

TextAlphabet == {"A", "b", "c"}
QueryAlphabet == {"a", "B"}

RECURSIVE StringsOfLen(_, _)
StringsOfLen(alphabet, n) ==
  IF n = 0 THEN {<<>>}
  ELSE {Append(s, c) : s \in StringsOfLen(alphabet, n - 1), c \in alphabet}

Strings(alphabet, n) == UNION {StringsOfLen(alphabet, k) : k \in 0..n}

ScoreTexts ==
  Strings(TextAlphabet, MaxTextLen) \cup {Fever, Pain, Headache, Respiratory}

ScoreQueries ==
  Strings(QueryAlphabet, MaxQueryLen)
    \cup {Str_feve, Str_fevre, Str_FEVER, Str_Pai, Str_hedache, Str_xyz123}

InitScore ==
  /\ FreshApp
  /\ selected = <<>>
  /\ searchQuery = <<>>
  /\ activeCategories = {All}
  /\ call \in {[fn |-> "getMatchScore", text |-> t, query |-> q,
                returned |-> FALSE, result |-> 0] :
               t \in ScoreTexts, q \in ScoreQueries}

callGetMatchScore ==
  /\ call.fn = "getMatchScore"
  /\ ~call.returned
  /\ call' = [call EXCEPT !.returned = TRUE,
                          !.result = getMatchScore(call.text, call.query)]
  /\ UNCHANGED <<appVars, selectorVars>>

NextScore == callGetMatchScore

SpecScore == InitScore /\ [][NextScore]_vars

(***************************************************************************)
(* displayedCategories applied on its own to queries and selections        *)
(***************************************************************************)

FilterQueries ==
  { <<>>, <<" ">>, Str_feve, Str_Pai, Str_Resp, Str_gen, Str_pain_padded,
    Str_GENERAL, Str_mental_health, Skin, Str_hot, Str_hedache, Str_xyz123,
    Str_tummy_ache, Str_bp, Str_ache, Str_Mental, Str_coff, Str_s, Str_pa,
    Str_ACHE, Str_stres, Str_Card, Str_pian, Str_cold, Str_heart, Str_swel }

FilterSelections ==
  { {All}, {Pain}, {Skin}, {General, Digestive}, {Cardiovascular, Neurological},
    {Respiratory, Pain, MentalHealth} }

InitFilter ==
  /\ FreshApp
  /\ selected = <<>>
  /\ searchQuery = <<>>
  /\ activeCategories = {All}
  /\ call \in {[fn |-> "displayedCategories", searchQuery |-> q,
                activeCategories |-> a, returned |-> FALSE, result |-> <<>>] :
               q \in FilterQueries, a \in FilterSelections}

callDisplayedCategories ==
  /\ call.fn = "displayedCategories"
  /\ ~call.returned
  /\ call' = [call EXCEPT !.returned = TRUE,
                          !.result = displayedCategories(call.searchQuery,
                                                         call.activeCategories)]
  /\ UNCHANGED <<appVars, selectorVars>>

NextFilter == callDisplayedCategories

SpecFilter == InitFilter /\ [][NextFilter]_vars

(***************************************************************************)
(* Vocabulary of the properties, stated without the operators they are     *)
(* about                                                                   *)
(***************************************************************************)

SameCharIC(c, d) ==
  \/ c = d
  \/ c \in UpperCaseLetters /\ UpperToLower[c] = d
  \/ d \in UpperCaseLetters /\ UpperToLower[d] = c

EqualsIC(s, t) ==
  Len(s) = Len(t) /\ \A i \in 1..Len(s) : SameCharIC(s[i], t[i])

IsPrefixIC(q, c) ==
  Len(q) <= Len(c) /\ \A i \in 1..Len(q) : SameCharIC(q[i], c[i])

OccursIC(q, c) ==
  \E k \in 0..(Len(c) - Len(q)) : \A i \in 1..Len(q) : SameCharIC(q[i], c[k + i])

\* The strings one insertion, deletion or substitution away from s.
Edits1(s, alphabet) ==
       {SubSeq(s, 1, i - 1) \o SubSeq(s, i + 1, Len(s)) : i \in 1..Len(s)}
  \cup {[s EXCEPT ![i] = c] : i \in 1..Len(s), c \in alphabet}
  \cup {SubSeq(s, 1, i) \o <<c>> \o SubSeq(s, i + 1, Len(s)) :
          i \in 0..Len(s), c \in alphabet}

\* The edit distance of a and b when it is at most 2, and 3 otherwise.
EditDistanceUpTo2(a, b) ==
  LET alphabet == Range(a) \cup Range(b)
  IN  IF a = b THEN 0
      ELSE IF b \in Edits1(a, alphabet) THEN 1
      ELSE IF Edits1(a, alphabet) \cap Edits1(b, alphabet) # {} THEN 2
      ELSE 3

SetMax(S) == CHOOSE m \in S : \A x \in S : x <= m

SynonymsOf(item) ==
  IF item \in DOMAIN SYNONYMS THEN Range(SYNONYMS[item]) ELSE {}

EffectiveScore(item, q) ==
  SetMax({getMatchScore(item, q)} \cup {getMatchScore(syn, q) : syn \in SynonymsOf(item)})

Survives(name, active) == All \in active \/ name \in active

\* The symptoms listed under the category `name' in a result.
ShownItems(result, name) ==
  UNION {Range(result[i].items) : i \in {j \in 1..Len(result) : result[j].name = name}}

FilterReturned == call.fn = "displayedCategories" /\ call.returned
ScoreReturned == call.fn = "getMatchScore" /\ call.returned

(***************************************************************************)
(* Properties of the filter (SpecFilter)                                   *)
(***************************************************************************)

\* C1: for a non-empty trimmed query, in every surviving category whose name
\* scores below 90, a symptom is displayed if and only if its effective score
\* (the maximum of the scores of its name and of its synonyms) is positive.
C1_ShownIffPositiveEffectiveScore ==
  FilterReturned =>
    LET q == trim(call.searchQuery)
    IN  q # <<>> =>
          \A k \in 1..Len(CATEGORIES) :
            LET data == CATEGORIES[k]
            IN  (Survives(data.name, call.activeCategories)
                   /\ getMatchScore(data.name, q) < 90) =>
                  \A item \in Range(data.items) :
                    (item \in ShownItems(call.result, data.name))
                      <=> (EffectiveScore(item, q) > 0)

\* "tummy ache": Abdominal pain is displayed although its own name scores 0,
\* and Nausea is not.
C1_Witness ==
  /\ FilterReturned
  /\ call.searchQuery = Str_tummy_ache
  /\ call.activeCategories = {General, Digestive}
  /\ getMatchScore(AbdominalPain, Str_tummy_ache) = 0
  /\ ShownItems(call.result, Digestive) = {AbdominalPain}

\* C2: when the trimmed query equals the name of a surviving category (case
\* ignored), the result holds that category with all of its symptoms in
\* taxonomy order.
C2_ExactCategoryNameShowsAll ==
  FilterReturned =>
    \A k \in 1..Len(CATEGORIES) :
      LET data == CATEGORIES[k]
      IN  (Survives(data.name, call.activeCategories)
             /\ trim(call.searchQuery) # <<>>
             /\ EqualsIC(trim(call.searchQuery), data.name)) =>
            \E i \in 1..Len(call.result) :
              /\ call.result[i].name = data.name
              /\ call.result[i].items = data.items

\* " pain ": the Pain category is whole, including a symptom of effective
\* score 0.
C2_Witness ==
  /\ FilterReturned
  /\ call.searchQuery = Str_pain_padded
  /\ Pain \in call.activeCategories
  /\ \E i \in 1..Len(call.result) :
       /\ call.result[i].name = Pain
       /\ Len(call.result[i].items) = 6
       /\ \E item \in Range(call.result[i].items) :
            EffectiveScore(item, trim(call.searchQuery)) = 0

\* C3 as stated: a query that is a prefix of a surviving category's name shows
\* that category with all of its symptoms.
C3_PrefixShowsAll ==
  FilterReturned =>
    \A k \in 1..Len(CATEGORIES) :
      LET data == CATEGORIES[k]
      IN  (Survives(data.name, call.activeCategories)
             /\ trim(call.searchQuery) # <<>>
             /\ IsPrefixIC(trim(call.searchQuery), data.name)) =>
            \E i \in 1..Len(call.result) :
              /\ call.result[i].name = data.name
              /\ call.result[i].items = data.items

\* C3 amended: a query that is a proper prefix of a surviving category's name
\* scores 80 on it, and the category is filtered like any other: exactly its
\* symptoms of positive effective score are shown.
C3_ProperPrefixIsFilteredByItem ==
  FilterReturned =>
    LET q == trim(call.searchQuery)
    IN  \A k \in 1..Len(CATEGORIES) :
          LET data == CATEGORIES[k]
          IN  (Survives(data.name, call.activeCategories)
                 /\ q # <<>>
                 /\ IsPrefixIC(q, data.name)
                 /\ ~EqualsIC(q, data.name)) =>
                /\ getMatchScore(data.name, q) = 80
                /\ ShownItems(call.result, data.name)
                     = {item \in Range(data.items) : EffectiveScore(item, q) > 0}

\* "Pai": the Pain category is shown without "Dull ache".
C3_Witness ==
  /\ FilterReturned
  /\ call.searchQuery = Str_Pai
  /\ call.activeCategories = {Pain}
  /\ Len(call.result) = 1
  /\ call.result[1].name = Pain
  /\ Len(call.result[1].items) = 5

\* C7 as stated: "Fever" scores 40 for the query "feve" and is displayed.
C7_FeveScores40 ==
  (FilterReturned /\ call.searchQuery = Str_feve
     /\ Survives(General, call.activeCategories)) =>
    /\ getMatchScore(Fever, trim(call.searchQuery)) = 40
    /\ Fever \in ShownItems(call.result, General)

\* C7 amended: "fever" starts with "feve", so "Fever" scores 80 for the query
\* "feve", and it is displayed.
C7_FeveScores80 ==
  (FilterReturned /\ call.searchQuery = Str_feve
     /\ Survives(General, call.activeCategories)) =>
    /\ getMatchScore(Fever, trim(call.searchQuery)) = 80
    /\ Fever \in ShownItems(call.result, General)

C7_Witness ==
  /\ FilterReturned
  /\ call.searchQuery = Str_feve
  /\ call.activeCategories = {All}
  /\ Fever \in ShownItems(call.result, General)

(***************************************************************************)
(* Properties of getMatchScore (SpecScore)                                 *)
(***************************************************************************)

NoTextualMatch(text, query) ==
  /\ ~EqualsIC(text, query)
  /\ ~IsPrefixIC(query, text)
  /\ ~OccursIC(query, text)

Tolerance(query) == IF Len(query) <= 5 THEN 1 ELSE 2

\* C8: when the query is neither equal to, a prefix of, nor contained in the
\* text (case ignored), the score is 50 - 10 * d if the query is longer than 2
\* characters and the edit distance d of the lowercased strings is within the
\* tolerance (1 up to length 5, else 2), and 0 otherwise.
C8_FuzzyTier ==
  (ScoreReturned /\ NoTextualMatch(call.text, call.query)) =>
    LET d == EditDistanceUpTo2(toLowerCase(call.query), toLowerCase(call.text))
    IN  call.result = IF Len(call.query) > 2 /\ d <= Tolerance(call.query)
                      THEN 50 - 10 * d
                      ELSE 0

\* A six-letter query two edits away from the text scores 30.
C8_Witness ==
  /\ ScoreReturned
  /\ NoTextualMatch(call.text, call.query)
  /\ Len(call.query) = 6
  /\ EditDistanceUpTo2(toLowerCase(call.query), toLowerCase(call.text)) = 2
  /\ call.result = 30

\* A two-letter query one edit away from the text scores 0.
C8_WitnessShortQuery ==
  /\ ScoreReturned
  /\ NoTextualMatch(call.text, call.query)
  /\ Len(call.query) = 2
  /\ EditDistanceUpTo2(toLowerCase(call.query), toLowerCase(call.text)) = 1
  /\ call.result = 0

\* C9: two strings that are equal up to the case of their letters score 100,
\* the empty string included.
C9_EqualIgnoringCaseScores100 ==
  (ScoreReturned /\ EqualsIC(call.text, call.query)) => call.result = 100

\* Equal only once the case is ignored.
C9_Witness ==
  /\ ScoreReturned
  /\ call.text # call.query
  /\ EqualsIC(call.text, call.query)
  /\ Len(call.text) = 3
  /\ call.result = 100

\* C10: for a non-empty query different from the text (case ignored), the
\* score is 80 when the text starts with the query, and 60 when the text
\* contains the query elsewhere only.
C10_PrefixAndSubstringTiers ==
  (ScoreReturned /\ call.query # <<>> /\ ~EqualsIC(call.text, call.query)) =>
    /\ IsPrefixIC(call.query, call.text) => call.result = 80
    /\ (OccursIC(call.query, call.text) /\ ~IsPrefixIC(call.query, call.text))
         => call.result = 60

\* A query that is a prefix of the text and also occurs later in it scores 80.
C10_Witness ==
  /\ ScoreReturned
  /\ Len(call.query) = 2
  /\ Len(call.text) = 4
  /\ IsPrefixIC(call.query, call.text)
  /\ OccursIC(call.query, Tail(call.text))
  /\ call.result = 80

(***************************************************************************)
(* Properties of the selector's state (Spec)                               *)
(***************************************************************************)

\* C4: activeCategories is never empty, and a step that removes the only
\* active category leaves exactly {'All'}.
C4_ActiveCategoriesNeverEmpty ==
  /\ [](activeCategories # {})
  /\ [][\A cat \in CategoryInputs \ {All} :
          (activeCategories = {cat} /\ cat \notin activeCategories')
            => activeCategories' = {All}]_vars

\* One explicit category is the only active one.
C4_Witness ==
  /\ isSymptomModalOpen
  /\ activeCategories = {Pain}
  /\ selected = <<>>

C6_EmptyWhenOpened ==
  [][(~isSymptomModalOpen /\ isSymptomModalOpen')
       => (selected' = <<>> /\ searchQuery' = <<>>)]_vars

(***************************************************************************)
(* Further properties of the filter (SpecFilter)                           *)
(***************************************************************************)

\* The position of x in the sequence s (x occurs in s).
IndexOf(s, x) == CHOOSE i \in 1..Len(s) : s[i] = x

CategoryNames == [k \in 1..Len(CATEGORIES) |-> CATEGORIES[k].name]

ResultNames == [i \in 1..Len(call.result) |-> call.result[i].name]

IsBlank(s) == \A i \in 1..Len(s) : s[i] \in {" ", "\t", "\n"}

\* C11: with an empty or whitespace-only query the result is the sequence of
\* the surviving categories, in taxonomy order, each with its whole item list.
C11_EmptyQueryShowsActiveCategoriesWhole ==
  (FilterReturned /\ IsBlank(call.searchQuery)) =>
    call.result =
      SelectSeq(CATEGORIES, LAMBDA d : Survives(d.name, call.activeCategories))

\* A query of one space, two categories active: both are whole.
C11_Witness ==
  /\ FilterReturned
  /\ call.searchQuery = <<" ">>
  /\ call.activeCategories = {General, Digestive}
  /\ Len(call.result) = 2
  /\ Len(call.result[1].items) = 9
  /\ Len(call.result[2].items) = 9

\* C12: when 'All' is not active, every displayed category is an active one.
C12_OnlyActiveCategoriesShown ==
  (FilterReturned /\ All \notin call.activeCategories) =>
    \A i \in 1..Len(call.result) : call.result[i].name \in call.activeCategories

\* "pain" names the Pain category exactly, Pain is not active: it is not
\* shown, while an active category with matching symptoms is.
C12_Witness ==
  /\ FilterReturned
  /\ call.searchQuery = Str_pain_padded
  /\ call.activeCategories = {General, Digestive}
  /\ Len(call.result) > 0
  /\ \A i \in 1..Len(call.result) : call.result[i].name # Pain

\* C13: in a category filtered by item, the symptoms are in non-increasing
\* order of effective score, and symptoms of equal score are in taxonomy order.
C13_SortedByScoreStable ==
  FilterReturned =>
    LET q == trim(call.searchQuery)
    IN  q # <<>> =>
          \A i \in 1..Len(call.result) :
            LET shown == call.result[i].items
                items == CATEGORIES[IndexOf(CategoryNames, call.result[i].name)].items
            IN  getMatchScore(call.result[i].name, q) < 90 =>
                  \A a, b \in 1..Len(shown) :
                    a < b =>
                      /\ EffectiveScore(shown[a], q) >= EffectiveScore(shown[b], q)
                      /\ EffectiveScore(shown[a], q) = EffectiveScore(shown[b], q)
                           => IndexOf(items, shown[a]) < IndexOf(items, shown[b])

\* "Pai": Muscle ache (80, by a synonym) moves ahead of Back pain and Joint
\* pain, which keep their order among the symptoms scoring 60.
C13_Witness ==
  /\ FilterReturned
  /\ call.searchQuery = Str_Pai
  /\ call.activeCategories = {Pain}
  /\ Len(call.result) = 1
  /\ SubSeq(call.result[1].items, 1, 3) = <<MuscleAche, BackPain, JointPain>>
  /\ SubSeq(CATEGORIES[6].items, 1, 3) = <<BackPain, JointPain, MuscleAche>>

\* C14: no displayed category has an empty item list; for a non-empty query a
\* surviving category whose name scores below 90 and none of whose symptoms
\* has a positive effective score is absent from the result.
C14_NoEmptyCategoryShown ==
  FilterReturned =>
    /\ \A i \in 1..Len(call.result) : Len(call.result[i].items) > 0
    /\ LET q == trim(call.searchQuery)
       IN  q # <<>> =>
             \A k \in 1..Len(CATEGORIES) :
               LET data == CATEGORIES[k]
               IN  (/\ Survives(data.name, call.activeCategories)
                    /\ getMatchScore(data.name, q) < 90
                    /\ \A item \in Range(data.items) : EffectiveScore(item, q) = 0)
                     => data.name \notin Range(ResultNames)

\* "feve", General and Digestive active: Digestive has no match and is
\* dropped, General is shown.
C14_Witness ==
  /\ FilterReturned
  /\ call.searchQuery = Str_feve
  /\ call.activeCategories = {General, Digestive}
  /\ ResultNames = <<General>>

\* C15: the displayed categories are in the order of the taxonomy.
C15_CategoriesInTaxonomyOrder ==
  FilterReturned =>
    \A i, j \in 1..Len(call.result) :
      i < j => IndexOf(CategoryNames, call.result[i].name)
                 < IndexOf(CategoryNames, call.result[j].name)

\* "Pai", all categories: Pain, whose best symptom scores 80, stays last,
\* after categories whose best symptom scores 60.
C15_Witness ==
  /\ FilterReturned
  /\ call.searchQuery = Str_Pai
  /\ call.activeCategories = {All}
  /\ ResultNames = <<Respiratory, Digestive, Cardiovascular, Neurological, Pain>>
  /\ EffectiveScore(call.result[1].items[1], Str_Pai) = 60
  /\ EffectiveScore(call.result[5].items[1], Str_Pai) = 80

\* C16: for the query "tummy ache" the effective score of "Abdominal pain" is
\* 100 and it is the first symptom displayed under Digestive.
C16_TummyAche ==
  (FilterReturned /\ call.searchQuery = Str_tummy_ache
     /\ Survives(Digestive, call.activeCategories)) =>
    /\ EffectiveScore(AbdominalPain, trim(call.searchQuery)) = 100
    /\ \E i \in 1..Len(call.result) :
         /\ call.result[i].name = Digestive
         /\ call.result[i].items[1] = AbdominalPain

C16_Witness ==
  /\ FilterReturned
  /\ call.searchQuery = Str_tummy_ache
  /\ call.activeCategories = {All}
  /\ ResultNames = <<Digestive>>
  /\ Str_tummy_ache \in Range(SYNONYMS[AbdominalPain])

\* Every category name, symptom name, synonym key and synonym.
TaxonomyTexts ==
       Range(CategoryNames)
  \cup UNION {Range(CATEGORIES[k].items) : k \in 1..Len(CATEGORIES)}
  \cup DOMAIN SYNONYMS
  \cup UNION {Range(SYNONYMS[key]) : key \in DOMAIN SYNONYMS}

\* C17: for the query "xyz123" every text of the taxonomy scores 0 and the
\* result is empty, whatever the selection.
C17_Xyz123MatchesNothing ==
  (FilterReturned /\ call.searchQuery = Str_xyz123) =>
    /\ \A text \in TaxonomyTexts : getMatchScore(text, call.searchQuery) = 0
    /\ call.result = <<>>

C17_Witness ==
  /\ FilterReturned
  /\ call.searchQuery = Str_xyz123
  /\ call.activeCategories = {Respiratory, Pain, MentalHealth}
  /\ call.result = <<>>

(***************************************************************************)
(* levenshteinDistance applied on its own to bounded strings               *)
(***************************************************************************)

MaxLevLen == 4

LevAlphabetA == {"a", "b"}
LevAlphabetB == {"a", "b", "c"}

InitLev ==
  /\ FreshApp
  /\ selected = <<>>
  /\ searchQuery = <<>>
  /\ activeCategories = {All}
  /\ call \in {[fn |-> "levenshteinDistance", a |-> x, b |-> y,
                returned |-> FALSE, result |-> 0] :
               x \in Strings(LevAlphabetA, MaxLevLen),
               y \in Strings(LevAlphabetB, MaxLevLen)}

callLevenshteinDistance ==
  /\ call.fn = "levenshteinDistance"
  /\ ~call.returned
  /\ call' = [call EXCEPT !.returned = TRUE,
                          !.result = levenshteinDistance(call.a, call.b)]
  /\ UNCHANGED <<appVars, selectorVars>>

NextLev == callLevenshteinDistance

SpecLev == InitLev /\ [][NextLev]_vars

(***************************************************************************)
(* Properties of levenshteinDistance (SpecLev)                             *)
(***************************************************************************)

LevReturned == call.fn = "levenshteinDistance" /\ call.returned

\* The least number of single-character insertions, deletions and
\* substitutions that turn a into b: the number of rounds of Edits1 after
\* which b is reached from a.  Strings longer than both a and b are left out,
\* since a shortest script can delete and substitute before it inserts.
RECURSIVE RoundsToReach(_, _, _, _, _)
RoundsToReach(reached, b, alphabet, maxLen, n) ==
  IF b \in reached THEN n
  ELSE RoundsToReach(
         reached \cup {t \in UNION {Edits1(s, alphabet) : s \in reached} :
                         Len(t) <= maxLen},
         b, alphabet, maxLen, n + 1)

EditDistance(a, b) ==
  RoundsToReach({a}, b, Range(a) \cup Range(b),
                IF Len(a) >= Len(b) THEN Len(a) ELSE Len(b), 0)

\* C18: the distance computed for (a, b) is the distance computed for (b, a).
C18_LevenshteinSymmetric ==
  LevReturned => call.result = levenshteinDistance(call.b, call.a)

\* Two different strings of different lengths.
C18_Witness ==
  /\ LevReturned
  /\ Len(call.a) = 2
  /\ Len(call.b) = 4
  /\ call.result = 3
  /\ levenshteinDistance(call.b, call.a) = 3

\* C19: the result is the edit distance of a and b; it is 0 for equal
\* strings, and the length of the other string when one of them is empty.
C19_LevenshteinIsEditDistance ==
  LevReturned =>
    /\ call.result = EditDistance(call.a, call.b)
    /\ call.a = call.b => call.result = 0
    /\ call.a = <<>> => call.result = Len(call.b)
    /\ call.b = <<>> => call.result = Len(call.a)

\* One substitution and one insertion.
C19_Witness ==
  /\ LevReturned
  /\ call.a = <<"a", "b", "a">>
  /\ call.b = <<"a", "c", "a", "b">>
  /\ call.result = 2

(***************************************************************************)
(* Properties of the selection (Spec)                                      *)
(***************************************************************************)

NoDuplicates(seq) == \A i, j \in 1..Len(seq) : seq[i] = seq[j] => i = j

\* C20: a step that changes the selection while the selector stays open
\* toggles one symptom: an absent symptom is added, a present one is removed,
\* and every other member stays; the selection holds no symptom twice, and
\* toggling the same symptom again gives back the selection before the step.
C20_ToggleSymptomAddsOrRemoves ==
  [][(isSymptomModalOpen' /\ selected' # selected) =>
       /\ NoDuplicates(selected')
       /\ \E s \in SymptomInputs :
            /\ s \notin Range(selected) =>
                 Range(selected') = Range(selected) \cup {s}
            /\ s \in Range(selected) =>
                 Range(selected') = Range(selected) \ {s}
            /\ \A other \in SymptomInputs \ {s} :
                 other \in Range(selected') <=> other \in Range(selected)
            /\ Range(toggledSelection(selected', s)) = Range(selected)]_vars

\* Back Pain was selected, then Fever; nothing was confirmed.
C20_Witness ==
  /\ isSymptomModalOpen
  /\ selected = <<BackPain, Fever>>
  /\ symptoms = <<>>

(***************************************************************************)
(* The taxonomy and the synonym table across recomputations of             *)
(* displayedCategories                                                     *)
(***************************************************************************)

\* The arrays the callback of displayedCategories works on for one category:
\* data.items, the array returned by map, and the array returned by filter,
\* which sort then reorders in place.  The value is the category's entry of
\* CATEGORIES once the callback has run.
\* Variant: the sort reorders data.items itself.
categoryAfterFilter_SortsItems(data, value, active) ==
  LET category == data.name
      isAll == All \in active
      query == trim(value)
  IN  IF ~isAll /\ category \notin active THEN data
      ELSE IF query = <<>> THEN data
      ELSE LET mapped == [items |-> data.items,
                          scoredItems |-> scoredItems(data.items, query)]
               sorted == [mapped EXCEPT
                            !.items = itemNames(sortByScoreDesc(mapped.scoredItems))]
           IN  [name |-> category, items |-> sorted.items]

categoryAfterFilter(data, value, active) ==
  LET category == data.name
      isAll == All \in active
      query == trim(value)
  IN  IF ~isAll /\ category \notin active THEN data
      ELSE IF query = <<>> THEN data
      ELSE LET mapped == [items |-> data.items,
                          scoredItems |-> scoredItems(data.items, query)]
               filtered == [items |-> mapped.items,
                            scoredItems |-> mapped.scoredItems,
                            relevantItems |-> SelectSeq(mapped.scoredItems, isRelevant)]
               sorted == [filtered EXCEPT
                            !.relevantItems = sortByScoreDesc(@)]
           IN  [name |-> category, items |-> sorted.items]

taxonomyAfterFilter(categories, value, active) ==
  [k \in 1..Len(categories) |->
     categoryAfterFilter(categories[k], value, active)]

RenderQueries == {<<>>, Str_pa, Str_ache}
RenderSelections == {{All}, {Pain}}

InitRender ==
  /\ FreshApp
  /\ selected = <<>>
  /\ searchQuery = <<>>
  /\ activeCategories = {All}
  /\ call \in {[fn |-> "useMemo", searchQuery |-> q, activeCategories |-> a,
                stale |-> TRUE, CATEGORIES |-> CATEGORIES, SYNONYMS |-> SYNONYMS] :
               q \in FilterQueries, a \in FilterSelections}

\* The callback of useMemo runs in the render that follows a change of
\* searchQuery or activeCategories.
recomputeDisplayedCategories ==
  /\ call.fn = "useMemo"
  /\ call.stale
  /\ call' = [call EXCEPT
                !.stale = FALSE,
                !.CATEGORIES = taxonomyAfterFilter(call.CATEGORIES, call.searchQuery,
                                                   call.activeCategories)]
  /\ UNCHANGED <<appVars, selectorVars>>

\* A query typed, a category toggled or a confirm: the inputs of the memo
\* change.
changeFilterInputs(value, active) ==
  /\ call.fn = "useMemo"
  /\ ~call.stale
  /\ value # call.searchQuery \/ active # call.activeCategories
  /\ call' = [call EXCEPT !.searchQuery = value, !.activeCategories = active,
                          !.stale = TRUE]
  /\ UNCHANGED <<appVars, selectorVars>>

NextRender ==
  \/ recomputeDisplayedCategories
  \/ \E value \in RenderQueries, active \in RenderSelections :
       changeFilterInputs(value, active)

SpecRender == InitRender /\ [][NextRender]_vars

(***************************************************************************)
(* Properties of the static data (SpecRender)                              *)
(***************************************************************************)

\* C21: after any sequence of recomputations the taxonomy and the synonym
\* table are the ones the module was loaded with: every category keeps its
\* items and their order.
C21_TaxonomyAndSynonymsImmutable ==
  call.fn = "useMemo" =>
    /\ call.CATEGORIES = CATEGORIES
    /\ call.SYNONYMS = SYNONYMS

\* A recomputation for "pa" has run, and the sort moved an item of a shown
\* category away from its place in the taxonomy.
C21_Witness ==
  /\ call.fn = "useMemo"
  /\ ~call.stale
  /\ call.searchQuery = Str_pa
  /\ call.activeCategories = {All}
  /\ call.CATEGORIES = CATEGORIES
  /\ LET shown == displayedCategories(call.searchQuery, call.activeCategories)
     IN  \E i \in 1..Len(shown) :
           shown[i].items #
             SelectSeq(CATEGORIES[IndexOf(CategoryNames, shown[i].name)].items,
                       LAMBDA x : x \in Range(shown[i].items))

(***************************************************************************)
(* displayedCategories as a call that returns or throws                    *)
(***************************************************************************)

\* SYNONYMS[item] is undefined for an item that is not a key of the table.
Undefined == << <<"undefined">> >>

lookupSynonyms(item) == IF item \in DOMAIN SYNONYMS THEN SYNONYMS[item] ELSE Undefined

\* Variant: forEach is called without the test.
hasSynonyms_Unchecked(synonyms) == TRUE

\* if (synonyms)
hasSynonyms(synonyms) == synonyms # Undefined

\* synonyms.forEach(...) is a TypeError when synonyms is undefined.
scoreItemThrows(item) ==
  LET synonyms == lookupSynonyms(item)
  IN  hasSynonyms(synonyms) /\ synonyms = Undefined

displayCategoryThrows(data, value, active) ==
  /\ All \in active \/ data.name \in active
  /\ trim(value) # <<>>
  /\ \E i \in 1..Len(data.items) : scoreItemThrows(data.items[i])

displayedCategoriesThrows(value, active) ==
  \E k \in 1..Len(CATEGORIES) : displayCategoryThrows(CATEGORIES[k], value, active)

Str_digits == <<"4", "2", "!">>
Str_tabs == <<"\t", "\n", " ">>
Str_long == Str_tummy_ache \o <<" ">> \o Str_mental_health \o <<" ">> \o Str_xyz123
Str_symbols == <<"(", "*", ")", "\\", "'">>

TotalQueries == FilterQueries \cup {Str_digits, Str_tabs, Str_long, Str_symbols}

InitTotal ==
  /\ FreshApp
  /\ selected = <<>>
  /\ searchQuery = <<>>
  /\ activeCategories = {All}
  /\ call \in {[fn |-> "displayedCategories?", searchQuery |-> q,
                activeCategories |-> a, outcome |-> "pending", result |-> <<>>] :
               q \in TotalQueries, a \in FilterSelections}

tryDisplayedCategories ==
  /\ call.fn = "displayedCategories?"
  /\ call.outcome = "pending"
  /\ call' = IF displayedCategoriesThrows(call.searchQuery, call.activeCategories)
             THEN [call EXCEPT !.outcome = "threw"]
             ELSE [call EXCEPT !.outcome = "returned",
                               !.result = displayedCategories(call.searchQuery,
                                                              call.activeCategories)]
  /\ UNCHANGED <<appVars, selectorVars>>

NextTotal == tryDisplayedCategories

SpecTotal == InitTotal /\ [][NextTotal]_vars

(***************************************************************************)
(* Properties of the filter as a call (SpecTotal)                          *)
(***************************************************************************)

\* A list of categories of the taxonomy, each with some of its own items.
IsCategoryList(result) ==
  \A i \in 1..Len(result) :
    /\ DOMAIN result[i] = {"name", "items"}
    /\ result[i].name \in Range(CategoryNames)
    /\ Len(result[i].items) >= 0
    /\ Range(result[i].items) \subseteq
         Range(CATEGORIES[IndexOf(CategoryNames, result[i].name)].items)

\* C22: for every query and every selection the filter returns, it does not
\* throw, and what it returns is a list of categories, the empty list at
\* worst.
C22_FilterIsTotal ==
  (call.fn = "displayedCategories?" /\ call.outcome # "pending") =>
    /\ call.outcome = "returned"
    /\ IsCategoryList(call.result)

\* A query of symbols that matches nothing: the empty list is returned.
C22_Witness ==
  /\ call.fn = "displayedCategories?"
  /\ call.outcome = "returned"
  /\ call.searchQuery = Str_symbols
  /\ call.activeCategories = {All}
  /\ call.result = <<>>

\* A query of white space other than blanks.
C22_WitnessWhiteSpace ==
  /\ call.fn = "displayedCategories?"
  /\ call.outcome = "returned"
  /\ call.searchQuery = Str_tabs
  /\ Len(call.result) = Len(CATEGORIES)

(***************************************************************************)
(* handleConfirm on a symptom field that already holds text                *)
(***************************************************************************)

MaxPrevLen == 4

PrevAlphabet == {"a", " ", ",", "."}

ConfirmedLists == {<<Fever>>, <<BackPain, Fever>>, <<Fever, Headache, BackPain>>}

Str_error == <<"e", "r", "r", "o", "r">>

InitConfirm ==
  /\ isSymptomModalOpen = TRUE
  /\ symptoms \in Strings(PrevAlphabet, MaxPrevLen)
  /\ analysis \in {[isLoading |-> FALSE, error |-> e, result |-> Null] :
                   e \in {NullString, Str_error}}
  /\ selectedFile = Null
  /\ isHistoryModalOpen = FALSE
  /\ savedReports = <<>>
  /\ localStorage = NoItem
  /\ requests = {}
  /\ now = 0
  /\ selected \in ConfirmedLists
  /\ searchQuery = <<>>
  /\ activeCategories = {All}
  /\ call = NoCall

NextConfirm == handleConfirm

SpecConfirm == InitConfirm /\ [][NextConfirm]_vars

(***************************************************************************)
(* Properties of confirming a selection (SpecConfirm, Spec)                *)
(***************************************************************************)

\* s without the white space at its two ends
Trimmed(s) ==
  LET solid == {i \in 1..Len(s) : s[i] \notin {" ", "\t", "\n"}}
  IN  IF solid = {} THEN <<>>
      ELSE SubSeq(s, CHOOSE i \in solid : \A j \in solid : i <= j,
                     CHOOSE i \in solid : \A j \in solid : i >= j)

\* The names of the list, in order, with ", " between two neighbours.
RECURSIVE CommaSeparated(_)
CommaSeparated(list) ==
  IF Len(list) = 0 THEN <<>>
  ELSE IF Len(list) = 1 THEN list[1]
  ELSE CommaSeparated(SubSeq(list, 1, Len(list) - 1)) \o <<",", " ">> \o list[Len(list)]

TextAfterAdding(prev, list) ==
  LET t == Trimmed(prev)
  IN  IF t = <<>> THEN CommaSeparated(list)
      ELSE IF t[Len(t)] \in {",", "."}
           THEN t \o <<" ">> \o CommaSeparated(list)
           ELSE t \o <<",", " ">> \o CommaSeparated(list)

\* C23: a confirm turns the symptom field into the joined names when the
\* field held only white space, and otherwise into the trimmed field, a
\* separator (" " after ',' or '.', else ", ") and the joined names; the
\* trimmed text that was there is the beginning of the new text.
C23_SymptomsAppended ==
  [][(isSymptomModalOpen /\ ~isSymptomModalOpen') =>
       /\ symptoms' = TextAfterAdding(symptoms, selected)
       /\ SubSeq(symptoms', 1, Len(Trimmed(symptoms))) = Trimmed(symptoms)]_vars

\* "a." was in the field; Back pain and Fever were confirmed.
C23_Witness ==
  /\ ~isSymptomModalOpen
  /\ symptoms = <<"a", ".", " ">> \o BackPain \o <<",", " ">> \o Fever

\* " a " was in the field: it is trimmed and ", " is put before the names.
C23_WitnessComma ==
  /\ ~isSymptomModalOpen
  /\ symptoms = <<"a", ",", " ">> \o Fever
  /\ selected = <<>>

\* C24: a step that changes the symptom field, or that empties the selection
\* while the selector closes, is a confirm: some symptom was selected, the
\* selected symptoms are added once each in the order of their selection, and
\* afterwards the selection and the query are empty, 'All' is the active
\* category and the selector is closed.
C24_ConfirmHandsSelectionAndResets ==
  [][(symptoms' # symptoms \/ (selected # <<>> /\ selected' = <<>> /\ ~isSymptomModalOpen'))
       => /\ isSymptomModalOpen
          /\ Len(selected) >= 1
          /\ NoDuplicates(selected)
          /\ symptoms' = TextAfterAdding(symptoms, selected)
          /\ selected' = <<>>
          /\ searchQuery' = <<>>
          /\ activeCategories' = {All}
          /\ ~isSymptomModalOpen']_vars

\* Back pain, then Fever were selected and confirmed.
C24_Witness ==
  /\ ~isSymptomModalOpen
  /\ symptoms = BackPain \o <<",", " ">> \o Fever
  /\ selected = <<>>
  /\ searchQuery = <<>>
  /\ activeCategories = {All}

(***************************************************************************)
(* geminiService: analyzeMedicalData                                       *)
(***************************************************************************)

Msg_PleaseProvide == <<"P","l","e","a","s","e"," ","p","r","o","v","i","d","e"," ","e","i","t","h","e","r"," ","a"," ","m","e","d","i","c","a","l"," ","d","o","c","u","m","e","n","t"," ","o","r"," ","d","e","s","c","r","i","b","e"," ","y","o","u","r"," ","s","y","m","p","t","o","m","s"," ","t","o"," ","p","r","o","c","e","e","d",".">>
Msg_ValidationTooShort == <<"V","a","l","i","d","a","t","i","o","n"," ","E","r","r","o","r",":"," ","P","l","e","a","s","e"," ","d","e","s","c","r","i","b","e"," ","y","o","u","r"," ","s","y","m","p","t","o","m","s"," ","i","n"," ","m","o","r","e"," ","d","e","t","a","i","l"," ","(","a","t"," ","l","e","a","s","t"," ","1","0"," ","c","h","a","r","a","c","t","e","r","s",")"," ","f","o","r"," ","a","c","c","u","r","a","t","e"," ","a","n","a","l","y","s","i","s",".">>
Msg_ValidationNoLetters == <<"V","a","l","i","d","a","t","i","o","n"," ","E","r","r","o","r",":"," ","Y","o","u","r"," ","s","y","m","p","t","o","m"," ","d","e","s","c","r","i","p","t","i","o","n"," ","a","p","p","e","a","r","s"," ","t","o"," ","b","e"," ","i","n","v","a","l","i","d","."," ","P","l","e","a","s","e"," ","d","e","s","c","r","i","b","e"," ","y","o","u","r"," ","c","o","n","d","i","t","i","o","n"," ","u","s","i","n","g"," ","t","e","x","t",".">>
Msg_InvalidFormat == <<"T","h","e"," ","A","I"," ","a","n","a","l","y","s","i","s"," ","w","a","s"," ","i","n","t","e","r","r","u","p","t","e","d"," ","o","r"," ","g","e","n","e","r","a","t","e","d"," ","a","n"," ","i","n","v","a","l","i","d"," ","f","o","r","m","a","t","."," ","P","l","e","a","s","e"," ","t","r","y"," ","a","g","a","i","n",".">>
Msg_ConfigurationError == <<"C","o","n","f","i","g","u","r","a","t","i","o","n"," ","E","r","r","o","r",":"," ","T","h","e"," ","A","I"," ","c","a","n","n","o","t"," ","p","e","r","f","o","r","m"," ","a"," ","w","e","b"," ","s","e","a","r","c","h"," ","w","h","i","l","e"," ","g","e","n","e","r","a","t","i","n","g"," ","a"," ","s","t","r","u","c","t","u","r","e","d"," ","J","S","O","N"," ","r","e","p","o","r","t","."," ","P","l","e","a","s","e"," ","c","o","n","t","a","c","t"," ","s","u","p","p","o","r","t",".">>
Msg_SystemOverload == <<"S","y","s","t","e","m"," ","O","v","e","r","l","o","a","d",":"," ","T","h","e"," ","d","a","i","l","y"," ","a","n","a","l","y","s","i","s"," ","l","i","m","i","t"," ","h","a","s"," ","b","e","e","n"," ","r","e","a","c","h","e","d"," ","o","r"," ","t","h","e"," ","s","y","s","t","e","m"," ","i","s"," ","e","x","p","e","r","i","e","n","c","i","n","g"," ","h","i","g","h"," ","t","r","a","f","f","i","c","."," ","P","l","e","a","s","e"," ","t","r","y"," ","a","g","a","i","n"," ","i","n"," ","a"," ","m","i","n","u","t","e",".">>
Msg_SafetyBlocked == <<"T","h","e"," ","a","n","a","l","y","s","i","s"," ","w","a","s"," ","b","l","o","c","k","e","d"," ","d","u","e"," ","t","o"," ","s","a","f","e","t","y"," ","c","o","n","t","e","n","t"," ","p","o","l","i","c","i","e","s","."," ","P","l","e","a","s","e"," ","e","n","s","u","r","e"," ","u","p","l","o","a","d","e","d"," ","d","o","c","u","m","e","n","t","s"," ","c","o","n","t","a","i","n"," ","n","o"," ","h","a","r","m","f","u","l"," ","o","r"," ","p","r","o","h","i","b","i","t","e","d"," ","m","a","t","e","r","i","a","l",".">>
Msg_AccessDenied == <<"A","c","c","e","s","s"," ","D","e","n","i","e","d",":"," ","T","h","e"," ","A","P","I"," ","K","e","y"," ","p","r","o","v","i","d","e","d"," ","i","s"," ","i","n","v","a","l","i","d",","," ","m","i","s","s","i","n","g",","," ","o","r"," ","l","a","c","k","s"," ","p","e","r","m","i","s","s","i","o","n"," ","t","o"," ","a","c","c","e","s","s"," ","t","h","e"," ","G","e","m","i","n","i"," ","2",".","5"," ","F","l","a","s","h"," ","m","o","d","e","l",".">>
Msg_ServiceUnavailable == <<"S","e","r","v","i","c","e"," ","U","n","a","v","a","i","l","a","b","l","e",":"," ","T","h","e"," ","A","I"," ","s","y","s","t","e","m"," ","i","s"," ","c","u","r","r","e","n","t","l","y"," ","u","n","d","e","r"," ","e","x","t","r","e","m","e"," ","l","o","a","d","."," ","W","e"," ","a","t","t","e","m","p","t","e","d"," ","t","o"," ","r","e","t","r","y"," ","b","u","t"," ","f","a","i","l","e","d","."," ","P","l","e","a","s","e"," ","t","r","y"," ","a","g","a","i","n"," ","i","n"," ","a"," ","f","e","w"," ","m","i","n","u","t","e","s",".">>
Msg_FailedToAnalyze == <<"F","a","i","l","e","d"," ","t","o"," ","a","n","a","l","y","z","e"," ","t","h","e"," ","m","e","d","i","c","a","l"," ","d","a","t","a","."," ","P","l","e","a","s","e"," ","t","r","y"," ","a","g","a","i","n",".">>
Msg_Unexpected == <<"A","n"," ","u","n","e","x","p","e","c","t","e","d"," ","e","r","r","o","r"," ","o","c","c","u","r","r","e","d",".">>
Kw_tool_use == <<"t","o","o","l"," ","u","s","e">>
Kw_response_mime_type == <<"r","e","s","p","o","n","s","e"," ","m","i","m","e"," ","t","y","p","e">>
Kw_quota == <<"q","u","o","t","a">>
Kw_resource_exhausted == <<"r","e","s","o","u","r","c","e"," ","e","x","h","a","u","s","t","e","d">>
Kw_safety == <<"s","a","f","e","t","y">>
Kw_blocked == <<"b","l","o","c","k","e","d">>
Kw_api_key == <<"a","p","i"," ","k","e","y">>
Kw_unauthenticated == <<"u","n","a","u","t","h","e","n","t","i","c","a","t","e","d">>
Kw_permission == <<"p","e","r","m","i","s","s","i","o","n">>
Kw_service_unavailable == <<"s","e","r","v","i","c","e"," ","u","n","a","v","a","i","l","a","b","l","e">>
Kw_overloaded == <<"o","v","e","r","l","o","a","d","e","d">>
Err_ModelOverloaded == <<"T","h","e"," ","m","o","d","e","l"," ","i","s"," ","o","v","e","r","l","o","a","d","e","d",".">>
Err_ServiceUnavailable == <<"S","e","r","v","i","c","e"," ","U","n","a","v","a","i","l","a","b","l","e">>
Err_ResourceExhausted == <<"R","e","s","o","u","r","c","e"," ","e","x","h","a","u","s","t","e","d">>
Err_QuotaExceeded == <<"Q","u","o","t","a"," ","e","x","c","e","e","d","e","d">>
Err_Internal == <<"I","n","t","e","r","n","a","l"," ","e","r","r","o","r">>
Err_ApiKey == <<"A","P","I"," ","k","e","y"," ","n","o","t"," ","v","a","l","i","d">>
Err_Safety == <<"B","l","o","c","k","e","d"," ","f","o","r"," ","s","a","f","e","t","y">>
Err_ToolUse == <<"T","o","o","l"," ","u","s","e"," ","i","s"," ","u","n","s","u","p","p","o","r","t","e","d">>
Text_cough == <<"c","o","u","g","h">>
Text_digits == <<"1","2","3","4","5","6","7","8","9","0">>
Text_chest_pain == <<"c","h","e","s","t"," ","p","a","i","n">>
Text_blank == <<" "," "," ">>
Data_QUJD == <<"Q","U","J","D">>
Mime_png == <<"i","m","a","g","e","/","p","n","g">>
Mime_pdf == <<"a","p","p","l","i","c","a","t","i","o","n","/","p","d","f">>
Interp_Low == <<"L","i","k","e","l","y"," ","v","i","r","a","l",".">>
Risk_Low == <<"L","o","w">>
Risk_Unknown == <<"U","n","k","n","o","w","n">>
Ellipsis == <<".",".",".">>
Json_Low == <<"{","\"","r","i","s","k","L","e","v","e","l","\"",":","\"","L","o","w","\"",",","\"","c","l","i","n","i","c","a","l","I","n","t","e","r","p","r","e","t","a","t","i","o","n","\"",":","\"","L","i","k","e","l","y"," ","v","i","r","a","l",".","\"","}">>
Json_NoRisk == <<"{","\"","c","l","i","n","i","c","a","l","I","n","t","e","r","p","r","e","t","a","t","i","o","n","\"",":","\"","L","i","k","e","l","y"," ","v","i","r","a","l",".","\"","}">>
Json_Empty == <<"{","}">>
Json_Truncated == <<"{","\"","r","i","s","k","L","e","v","e","l","\"",":">>

AsciiLetters == UpperCaseLetters \cup {UpperToLower[c] : c \in UpperCaseLetters}

\* /[a-zA-Z]/.test(s)
hasLetters(s) == \E i \in 1..Len(s) : s[i] \in AsciiLetters

\* The Error thrown by the input validation, NullString when none is thrown.
\* Variant: the text is validated only when it is not blank.
validationError_BlankAllowed(base64Image, symptomsArg) ==
  LET cleanedSymptoms == trim(symptomsArg)
  IN  IF ~isTruthy(base64Image) /\ cleanedSymptoms # <<>>
      THEN IF Len(cleanedSymptoms) < 10 THEN Msg_ValidationTooShort
           ELSE IF ~hasLetters(cleanedSymptoms) THEN Msg_ValidationNoLetters
           ELSE NullString
      ELSE NullString

validationError(base64Image, symptomsArg) ==
  LET cleanedSymptoms == trim(symptomsArg)
  IN  IF ~isTruthy(base64Image)
      THEN IF Len(cleanedSymptoms) < 10 THEN Msg_ValidationTooShort
           ELSE IF ~hasLetters(cleanedSymptoms) THEN Msg_ValidationNoLetters
           ELSE NullString
      ELSE NullString

\* The parts of the request: the image when there is one, then the prompt,
\* of which only the symptoms it quotes are kept.
buildParts(base64Image, mimeType, symptomsArg) ==
  (IF isTruthy(base64Image) /\ isTruthy(mimeType)
   THEN <<[inlineData |-> [data |-> base64Image, mimeType |-> mimeType]]>>
   ELSE <<>>)
  \o <<[text |-> symptomsArg]>>

MAX_RETRIES == 3

NoError == [status |-> 0, message |-> NullString]

\* e.message ? e.message.toLowerCase() : ""
lowerCaseMessage(e) == IF isTruthy(e.message) THEN toLowerCase(e.message) ELSE <<>>

isOverloaded(e) ==
  LET errMessage == lowerCaseMessage(e)
  IN  \/ e.status = 503
      \/ includes(errMessage, Kw_overloaded)
      \/ includes(errMessage, Kw_service_unavailable)
      \/ includes(errMessage, Kw_resource_exhausted)

\* Variant: one more retry is allowed.
mayRetry_OneMore(e, attempt) == isOverloaded(e) /\ attempt <= MAX_RETRIES + 1

mayRetry(e, attempt) == isOverloaded(e) /\ attempt <= MAX_RETRIES

\* Math.pow(2, attempt) * 1000
retryDelay(attempt) == (2 ^ attempt) * 1000

\* The message of the Error the outer catch throws for the error it caught.
remapError(error) ==
  LET errorMessage == lowerCaseMessage(error)
  IN  IF includes(errorMessage, Kw_tool_use) \/ includes(errorMessage, Kw_response_mime_type)
      THEN Msg_ConfigurationError
      ELSE IF \/ error.status = 429
              \/ includes(errorMessage, Kw_quota)
              \/ includes(errorMessage, Kw_resource_exhausted)
      THEN Msg_SystemOverload
      ELSE IF includes(errorMessage, Kw_safety) \/ includes(errorMessage, Kw_blocked)
      THEN Msg_SafetyBlocked
      ELSE IF \/ error.status = 403
              \/ includes(errorMessage, Kw_api_key)
              \/ includes(errorMessage, Kw_unauthenticated)
              \/ includes(errorMessage, Kw_permission)
      THEN Msg_AccessDenied
      ELSE IF \/ error.status = 503
              \/ includes(errorMessage, Kw_service_unavailable)
              \/ includes(errorMessage, Kw_overloaded)
      THEN Msg_ServiceUnavailable
      ELSE IF isTruthy(error.message) THEN error.message ELSE Msg_FailedToAnalyze

\* JSON.parse on the texts the provider answers with; SyntaxError for a text
\* that is not JSON.  A field that the text lacks is NullString.
SyntaxError == [riskLevel |-> <<"SyntaxError">>, clinicalInterpretation |-> <<"SyntaxError">>]

ParsedJson ==
  (Json_Low :> [riskLevel |-> Risk_Low, clinicalInterpretation |-> Interp_Low])
  @@ (Json_NoRisk :> [riskLevel |-> NullString, clinicalInterpretation |-> Interp_Low])
  @@ (Json_Empty :> [riskLevel |-> NullString, clinicalInterpretation |-> NullString])

JSON_parse(text) == IF text \in DOMAIN ParsedJson THEN ParsedJson[text] ELSE SyntaxError

\* A call of analyzeMedicalData up to its first await: it has thrown a
\* validation error, or it has sent its first request and waits.
analyzeMedicalData(base64Image, mimeType, symptomsArg) ==
  LET invalid == validationError(base64Image, symptomsArg)
      entered == [base64Image |-> base64Image, mimeType |-> mimeType,
                  symptoms |-> symptomsArg, parts |-> <<>>, pc |-> "threw",
                  attempt |-> 0, delays |-> <<>>, lastError |-> NoError,
                  thrown |-> invalid, result |-> Null]
  IN  IF invalid # NullString THEN entered
      ELSE [entered EXCEPT !.parts = buildParts(base64Image, mimeType, symptomsArg),
                           !.pc = "awaiting", !.attempt = 1, !.thrown = NullString]

\* The call r when generateContent resolves with a response.
onResponse(r, text) ==
  LET jsonText == IF isTruthy(text) THEN text ELSE Json_Empty
      structuredData == JSON_parse(jsonText)
  IN  IF structuredData = SyntaxError
      THEN [r EXCEPT !.pc = "threw",
                     !.thrown = remapError([status |-> 0, message |-> Msg_InvalidFormat])]
      ELSE [r EXCEPT !.pc = "returned",
                     !.result = [text |-> jsonText, structuredData |-> structuredData,
                                 groundingChunks |-> <<>>]]

\* The call r when generateContent rejects with e.
onRejection(r, e) ==
  IF mayRetry(e, r.attempt)
  THEN [r EXCEPT !.pc = "backoff", !.lastError = e,
                 !.delays = Append(@, retryDelay(r.attempt))]
  ELSE [r EXCEPT !.pc = "threw", !.lastError = e, !.thrown = remapError(e)]

\* The call r when the timer of the backoff fires: the next attempt.
onTimeout(r) == [r EXCEPT !.pc = "awaiting", !.attempt = @ + 1]

isSettled(r) == r.pc \in {"returned", "threw"}

(***************************************************************************)
(* App: the analysis, the file, and the saved reports                      *)
(***************************************************************************)

MaxNow == 2
MaxReports == 2

\* What FileUpload hands to onFileSelect: an image, a file whose type the
\* browser does not know (file.type is ""), and an empty file.
UploadedFiles ==
  { [data |-> Data_QUJD, mimeType |-> Mime_png],
    [data |-> Data_QUJD, mimeType |-> <<>>],
    [data |-> <<>>, mimeType |-> Mime_pdf] }

ResponseTexts == {Json_Low, Json_NoRisk, <<>>, Json_Truncated}

ProviderErrors ==
  { [status |-> 503, message |-> Err_ModelOverloaded],
    [status |-> 503, message |-> NullString],
    [status |-> 0,   message |-> Err_ServiceUnavailable],
    [status |-> 0,   message |-> Err_ResourceExhausted],
    [status |-> 429, message |-> Err_QuotaExceeded],
    [status |-> 500, message |-> Err_Internal],
    [status |-> 403, message |-> Err_ApiKey],
    [status |-> 0,   message |-> Err_Safety],
    [status |-> 400, message |-> Err_ToolUse],
    [status |-> 0,   message |-> <<>>] }

\* Variant: the form is rendered while the analysis is loading.
formShown_WhileLoading ==
  /\ analysis.result = Null
  /\ ~isSymptomModalOpen
  /\ ~isHistoryModalOpen

\* The input form is rendered, and no modal covers it.
formShown ==
  /\ ~analysis.isLoading
  /\ analysis.result = Null
  /\ ~isSymptomModalOpen
  /\ ~isHistoryModalOpen

\* The "Save Analysis" and "History" buttons are rendered and not covered.
toolbarShown ==
  /\ ~analysis.isLoading
  /\ ~isSymptomModalOpen
  /\ ~isHistoryModalOpen

handleSymptomsChange(value) ==
  /\ formShown
  /\ value # symptoms
  /\ symptoms' = value
  /\ analysis' = clearError(analysis)
  /\ UNCHANGED <<isSymptomModalOpen, selectorVars, call, hostVars>>

\* file is an uploaded file, or Null when the file is removed.
handleFileSelect(file) ==
  /\ formShown
  /\ (selectedFile = Null) # (file = Null)
  /\ selectedFile' = file
  /\ analysis' = clearError(analysis)
  /\ UNCHANGED <<isSymptomModalOpen, symptoms, selectorVars, call,
                 isHistoryModalOpen, savedReports, localStorage, requests, now>>

\* What the continuation of handleAnalyze sets once the call r has settled.
settledAnalysis(r, current) ==
  IF r.pc = "returned"
  THEN [isLoading |-> FALSE, error |-> NullString, result |-> r.result]
  ELSE [isLoading |-> FALSE,
        error |-> IF isTruthy(r.thrown) THEN r.thrown ELSE Msg_Unexpected,
        result |-> Null]

\* The calls still running, and r: a settled call is kept until the next
\* call is made.
withCall(running, r) == {x \in running : ~isSettled(x)} \cup {r}

\* A click on "Analyze Reports", up to the first await of analyzeMedicalData;
\* a validation error rejects the promise in the same task.
handleAnalyze ==
  /\ formShown
  /\ IF trim(symptoms) = <<>> /\ selectedFile = Null
     THEN /\ analysis' = [analysis EXCEPT !.error = Msg_PleaseProvide]
          /\ UNCHANGED requests
     ELSE LET r == analyzeMedicalData(
                     IF selectedFile # Null THEN selectedFile.data ELSE NullString,
                     IF selectedFile # Null THEN selectedFile.mimeType ELSE NullString,
                     symptoms)
          IN  /\ requests' = withCall(requests, r)
              /\ analysis' = IF isSettled(r)
                             THEN settledAnalysis(r, analysis)
                             ELSE [isLoading |-> TRUE, error |-> NullString,
                                   result |-> Null]
  /\ UNCHANGED <<isSymptomModalOpen, symptoms, selectorVars, call, selectedFile,
                 isHistoryModalOpen, savedReports, localStorage, now>>

\* A call moves from r to next; when it settles, handleAnalyze resumes.
resume(r, next) ==
  /\ requests' = (requests \ {r}) \cup {next}
  /\ analysis' = IF isSettled(next) THEN settledAnalysis(next, analysis) ELSE analysis
  /\ UNCHANGED <<isSymptomModalOpen, symptoms, selectorVars, call, selectedFile,
                 isHistoryModalOpen, savedReports, localStorage, now>>

providerResolves(r, text) ==
  /\ r \in requests
  /\ r.pc = "awaiting"
  /\ resume(r, onResponse(r, text))

providerRejects(r, e) ==
  /\ r \in requests
  /\ r.pc = "awaiting"
  /\ resume(r, onRejection(r, e))

backoffElapses(r) ==
  /\ r \in requests
  /\ r.pc = "backoff"
  /\ resume(r, onTimeout(r))

\* Date.now() moves on.
tick ==
  /\ now < MaxNow
  /\ now' = now + 1
  /\ UNCHANGED <<isSymptomModalOpen, symptoms, analysis, selectorVars, call,
                 selectedFile, isHistoryModalOpen, savedReports, localStorage,
                 requests>>

\* Number.prototype.toString on a natural number
RECURSIVE numberToString(_)
numberToString(n) ==
  LET digit == <<"0", "1", "2", "3", "4", "5", "6", "7", "8", "9">>[(n % 10) + 1]
  IN  IF n < 10 THEN <<digit>> ELSE Append(numberToString(n \div 10), digit)

\* String.prototype.slice(0, 100)
slice100(s) == IF Len(s) <= 100 THEN s ELSE SubSeq(s, 1, 100)

\* JSON.stringify and JSON.parse on a list of reports, whose fields are
\* strings, numbers and objects that JSON.parse produced.
JSON_stringify(value) == [json |-> value]

JSON_parseReports(item) == item.json

newReport(result) ==
  [id |-> numberToString(now),
   timestamp |-> now,
   dateLabel |-> numberToString(now),
   riskLevel |-> IF isTruthy(result.structuredData.riskLevel)
                 THEN result.structuredData.riskLevel ELSE Risk_Unknown,
   summary |-> slice100(result.structuredData.clinicalInterpretation) \o Ellipsis,
   result |-> result]

\* Variant: the new report is put at the end.
savedWith_Appended(reports, report) == Append(reports, report)

savedWith(reports, report) == <<report>> \o reports

\* "Save Analysis"; slice on a missing clinicalInterpretation is a TypeError
\* that ends the handler before anything is stored.
saveAnalysis ==
  /\ toolbarShown
  /\ analysis.result # Null
  /\ analysis.result.structuredData.clinicalInterpretation # NullString
  /\ Len(savedReports) < MaxReports
  /\ LET updatedReports == savedWith(savedReports, newReport(analysis.result))
     IN  /\ savedReports' = updatedReports
         /\ localStorage' = JSON_stringify(updatedReports)
  /\ UNCHANGED <<isSymptomModalOpen, symptoms, analysis, selectorVars, call,
                 selectedFile, isHistoryModalOpen, requests, now>>

openHistory ==
  /\ toolbarShown
  /\ isHistoryModalOpen' = TRUE
  /\ UNCHANGED <<isSymptomModalOpen, symptoms, analysis, selectorVars, call,
                 selectedFile, savedReports, localStorage, requests, now>>

closeHistory ==
  /\ isHistoryModalOpen
  /\ isHistoryModalOpen' = FALSE
  /\ UNCHANGED <<isSymptomModalOpen, symptoms, analysis, selectorVars, call,
                 selectedFile, savedReports, localStorage, requests, now>>

loadReport(report) ==
  /\ isHistoryModalOpen
  /\ analysis' = [isLoading |-> FALSE, error |-> NullString, result |-> report.result]
  /\ isHistoryModalOpen' = FALSE
  /\ UNCHANGED <<isSymptomModalOpen, symptoms, selectorVars, call,
                 selectedFile, savedReports, localStorage, requests, now>>

withoutReport(reports, id) == SelectSeq(reports, LAMBDA r : r.id # id)

deleteReport(id) ==
  /\ isHistoryModalOpen
  /\ LET updated == withoutReport(savedReports, id)
     IN  /\ savedReports' = updated
         /\ localStorage' = JSON_stringify(updated)
  /\ UNCHANGED <<isSymptomModalOpen, symptoms, analysis, selectorVars, call,
                 selectedFile, isHistoryModalOpen, requests, now>>

\* "New Analysis" of the result dashboard
resetApp ==
  /\ toolbarShown
  /\ analysis.result # Null
  /\ selectedFile' = Null
  /\ symptoms' = <<>>
  /\ analysis' = [isLoading |-> FALSE, error |-> NullString, result |-> Null]
  /\ UNCHANGED <<isSymptomModalOpen, selectorVars, call,
                 isHistoryModalOpen, savedReports, localStorage, requests, now>>

\* analyzeMedicalData as App calls it, for each symptom text and file
ServiceTexts == {<<>>, Text_blank, Text_cough, Text_digits, Text_chest_pain}

InitService ==
  /\ isSymptomModalOpen = FALSE
  /\ symptoms \in ServiceTexts
  /\ analysis = [isLoading |-> FALSE, error |-> NullString, result |-> Null]
  /\ selectedFile \in UploadedFiles \cup {Null}
  /\ isHistoryModalOpen = FALSE
  /\ savedReports = <<>>
  /\ localStorage = NoItem
  /\ requests = {}
  /\ now = 0
  /\ selected = <<>>
  /\ searchQuery = <<>>
  /\ activeCategories = {All}
  /\ call = NoCall

NextService ==
  \/ handleAnalyze
  \/ \E r \in requests, text \in ResponseTexts : providerResolves(r, text)
  \/ \E r \in requests, e \in ProviderErrors : providerRejects(r, e)
  \/ \E r \in requests : backoffElapses(r)

\* Every call of the provider is answered, and every timer fires.
FairProvider ==
  /\ WF_vars(\E r \in requests :
               \/ \E text \in ResponseTexts : providerResolves(r, text)
               \/ \E e \in ProviderErrors : providerRejects(r, e))
  /\ WF_vars(\E r \in requests : backoffElapses(r))

SpecService == InitService /\ [][NextService]_vars /\ FairProvider

\* App with its form, its modals and its reports
AppTexts == {<<>>, Text_cough, Text_chest_pain}
AppFiles == {Null, [data |-> Data_QUJD, mimeType |-> Mime_png]}
AppResponses == {Json_Low, Json_Truncated}
AppErrors == {[status |-> 503, message |-> Err_ModelOverloaded],
              [status |-> 500, message |-> Err_Internal]}

InitApp ==
  /\ FreshApp
  /\ selected = <<>>
  /\ searchQuery = <<>>
  /\ activeCategories = {All}
  /\ call = NoCall

NextApp ==
  \/ \E value \in AppTexts : handleSymptomsChange(value)
  \/ \E file \in AppFiles : handleFileSelect(file)
  \/ handleAnalyze
  \/ \E r \in requests, text \in AppResponses : providerResolves(r, text)
  \/ \E r \in requests, e \in AppErrors : providerRejects(r, e)
  \/ \E r \in requests : backoffElapses(r)
  \/ saveAnalysis
  \/ openHistory
  \/ closeHistory
  \/ \E i \in 1..Len(savedReports) : loadReport(savedReports[i])
  \/ resetApp
  \/ openSymptomSelector
  \/ onClose
  \/ toggleSymptom(Fever)
  \/ handleConfirm

SpecApp == InitApp /\ [][NextApp]_vars /\ FairProvider

\* The saved reports, in a browser that may hold reports of an earlier visit
Result_Low ==
  [text |-> Json_Low, structuredData |-> JSON_parse(Json_Low), groundingChunks |-> <<>>]

Result_NoRisk ==
  [text |-> Json_NoRisk, structuredData |-> JSON_parse(Json_NoRisk),
   groundingChunks |-> <<>>]

EarlierReport ==
  [id |-> <<"0">>, timestamp |-> 0, dateLabel |-> <<"0">>, riskLevel |-> Risk_Low,
   summary |-> Interp_Low \o Ellipsis, result |-> Result_Low]

InitReports ==
  /\ isSymptomModalOpen = FALSE
  /\ symptoms = <<>>
  /\ analysis \in {[isLoading |-> FALSE, error |-> NullString, result |-> res] :
                   res \in {Null, Result_Low, Result_NoRisk}}
  /\ selectedFile = Null
  /\ isHistoryModalOpen = FALSE
  /\ localStorage \in {NoItem, JSON_stringify(<<>>), JSON_stringify(<<EarlierReport>>)}
  /\ savedReports = IF localStorage # NoItem THEN JSON_parseReports(localStorage) ELSE <<>>
  /\ requests = {}
  /\ now = 0
  /\ selected = <<>>
  /\ searchQuery = <<>>
  /\ activeCategories = {All}
  /\ call = NoCall

NextReports ==
  \/ tick
  \/ saveAnalysis
  \/ openHistory
  \/ closeHistory
  \/ \E i \in 1..Len(savedReports) : loadReport(savedReports[i])
  \/ \E i \in 1..Len(savedReports) : deleteReport(savedReports[i].id)
  \/ resetApp

SpecReports == InitReports /\ [][NextReports]_vars

(***************************************************************************)
(* Properties of analyzeMedicalData (SpecService)                          *)
(***************************************************************************)

\* e has status 503, or its message, whatever the case of its letters,
\* contains 'overloaded', 'service unavailable' or 'resource exhausted'.
OverloadType(e) ==
  \/ e.status = 503
  \/ /\ e.message # NullString
     /\ \/ OccursIC(Kw_overloaded, e.message)
        \/ OccursIC(Kw_service_unavailable, e.message)
        \/ OccursIC(Kw_resource_exhausted, e.message)

BackoffDelays == <<2000, 4000, 8000>>

Unsettled(r) == r.pc \in {"awaiting", "backoff"}

\* next is the call r one step later.
StepOfCall(r, next) ==
  /\ next.base64Image = r.base64Image
  /\ next.mimeType = r.mimeType
  /\ next.symptoms = r.symptoms
  /\ next.parts = r.parts

\* C25: a call of analyzeMedicalData asks the provider at most 4 times; it
\* asks again only after a failure of overload type, after waiting 2 s, 4 s
\* and 8 s before the 1st, 2nd and 3rd retry; a failure of another type ends
\* the call with a thrown error; and every call ends, with a result or with
\* a thrown error.
C25_BoundedRetriesWithBackoff ==
  /\ [](\A r \in requests :
          /\ r.attempt <= 4
          /\ Len(r.delays) <= 3
          /\ r.delays = SubSeq(BackoffDelays, 1, Len(r.delays))
          /\ Len(r.delays) = IF r.pc = "backoff" THEN r.attempt
                             ELSE IF r.attempt = 0 THEN 0 ELSE r.attempt - 1)
  /\ [][\A r \in requests :
          (r.pc = "awaiting" /\ r \notin requests') =>
            \E next \in requests' :
              /\ StepOfCall(r, next)
              /\ next.pc \in {"backoff", "returned", "threw"}
              /\ next.pc = "backoff" =>
                   (OverloadType(next.lastError) /\ r.attempt <= 3)
              /\ (next.pc = "threw" /\ next.lastError # r.lastError) =>
                   (~OverloadType(next.lastError) \/ r.attempt = 4)
              /\ next.pc = "returned" => next.result # Null
              /\ next.pc = "threw" => next.thrown # NullString]_vars
  /\ ((\E r \in requests : Unsettled(r)) ~> (\A r \in requests : ~Unsettled(r)))

\* The fourth request was answered, after waits of 2 s, 4 s and 8 s.
C25_Witness ==
  \E r \in requests :
    /\ r.pc = "returned"
    /\ r.attempt = 4
    /\ r.delays = <<2000, 4000, 8000>>
    /\ OverloadType(r.lastError)

\* C26 as stated: a call that gave up after its last retry failed with an
\* error of overload type has thrown the 'Service Unavailable' error.
C26_ExhaustedRetriesThrowServiceUnavailable ==
  \A r \in requests :
    (r.pc = "threw" /\ r.attempt = MAX_RETRIES + 1 /\ OverloadType(r.lastError))
      => r.thrown = Msg_ServiceUnavailable

\* The text is too short or has no letter of a-z, A-Z.
FailsTextValidation(s) ==
  \/ Len(Trimmed(s)) < 10
  \/ \A i \in 1..Len(s) : ~(\E c \in UpperCaseLetters : SameCharIC(s[i], c))

NoImage(r) == r.base64Image = NullString \/ r.base64Image = <<>>

ValidationErrorPrefix ==
  <<"V","a","l","i","d","a","t","i","o","n"," ","E","r","r","o","r">>

\* C27: a call without image whose text fails the validation has thrown a
\* 'Validation Error' and has sent nothing to the provider; the message
\* reaches App as it was thrown, and the analysis is not loading, holds that
\* message as its error and holds no result.
C27_ValidationErrorReachesApp ==
  \A r \in requests :
    (NoImage(r) /\ FailsTextValidation(r.symptoms)) =>
      /\ r.pc = "threw"
      /\ r.attempt = 0
      /\ r.parts = <<>>
      /\ r.thrown \in {Msg_ValidationTooShort, Msg_ValidationNoLetters}
      /\ IsPrefixIC(ValidationErrorPrefix, r.thrown)
      /\ r.thrown = Msg_ValidationTooShort <=> Len(Trimmed(r.symptoms)) < 10
      /\ analysis = [isLoading |-> FALSE, error |-> r.thrown, result |-> Null]

\* Ten digits and no file: the text is long enough but has no letter.
C27_Witness ==
  /\ selectedFile = Null
  /\ symptoms = Text_digits
  /\ analysis = [isLoading |-> FALSE, error |-> Msg_ValidationNoLetters, result |-> Null]
  /\ \E r \in requests : r.pc = "threw" /\ r.attempt = 0

\* C28 as stated: a request that was sent holds an inline image, or a text
\* that passes the validation.
C28_RequestsCarryMeaningfulInput ==
  \A r \in requests :
    r.attempt >= 1 =>
      \/ \E i \in 1..Len(r.parts) : "inlineData" \in DOMAIN r.parts[i]
      \/ ~FailsTextValidation(r.symptoms)

(***************************************************************************)
(* Properties of App's analysis state (SpecApp)                            *)
(***************************************************************************)

HasError == analysis.error # NullString
HasResult == analysis.result # Null

RECURSIVE Without(_, _)
Without(reports, id) ==
  IF Len(reports) = 0 THEN <<>>
  ELSE LET rest == Without(SubSeq(reports, 1, Len(reports) - 1), id)
           last == reports[Len(reports)]
       IN  IF last.id = id THEN rest ELSE Append(rest, last)

====
